---- MODULE Spec2Model ----
(***************************************************************************)
(* Verification model of the venue viewer: the camera flights of           *)
(* CameraManager, the tap-to-select handler, the overlay projection and    *)
(* the tone-mapping selection of RenderManager.                            *)
(*                                                                         *)
(* Numbers.  Every real number of the program is held in fixed point with  *)
(* One = 1000 (a length of 0.2 is 200, a progress of 0.5 is 500), times    *)
(* are milliseconds, and angles count multiples of pi/12, so that PI = 12. *)
(* Divisions round towards minus infinity.                                 *)
(***************************************************************************)
EXTENDS Integers, Sequences, FiniteSets, TLC

----------------------------------------------------------------------------
(* Arithmetic of the program's numbers *)

One == 1000

PI == 12

TWO_PI == 2 * PI

Infinity == 2147483647

Abs(x) == IF x < 0 THEN -x ELSE x

Min(a, b) == IF a < b THEN a ELSE b

RECURSIVE Isqrt(_)
Isqrt(n) ==
    IF n < 2 THEN n
    ELSE LET s == 2 * Isqrt(n \div 4)
         IN  IF (s + 1) * (s + 1) <= n THEN s + 1 ELSE s

\* sin of k*pi/12 for k = 0..6, times One
SinTable == <<0, 259, 500, 707, 866, 966, 1000>>

Sin(a) ==
    LET m == a % TWO_PI
    IN  IF m <= 6 THEN SinTable[m + 1]
        ELSE IF m <= 12 THEN SinTable[12 - m + 1]
        ELSE IF m <= 18 THEN -SinTable[m - 12 + 1]
        ELSE -SinTable[24 - m + 1]

Cos(a) == Sin(a + 6)

\* Math.atan2(x, z) as THREE.Spherical uses it: the angle of direction (x, z)
\* from the +z axis, in (-PI, PI], rounded to the angle grid; atan2(0, 0) = 0.
Atan2(x, z) ==
    IF x = 0 /\ z = 0 THEN 0
    ELSE LET score(t) == x * Sin(t) + z * Cos(t)
             best == {t \in (1 - PI)..PI :
                        \A u \in (1 - PI)..PI : score(u) <= score(t)}
         IN  CHOOSE t \in best : \A u \in best : Abs(t) <= Abs(u) /\ (Abs(t) = Abs(u) => u <= t)

\* Math.acos(y / radius), in 0..PI, rounded to the angle grid.
Acos(y, radius) ==
    LET err(p) == Abs(Cos(p) * radius - One * y)
    IN  CHOOSE p \in 0..PI :
            \A q \in 0..PI : err(p) < err(q) \/ (err(p) = err(q) /\ p <= q)

\* Vectors are triples <<x, y, z>>.
VAdd(a, b) == <<a[1] + b[1], a[2] + b[2], a[3] + b[3]>>

VSub(a, b) == <<a[1] - b[1], a[2] - b[2], a[3] - b[3]>>

VScale(a, k) == <<(a[1] * k) \div One, (a[2] * k) \div One, (a[3] * k) \div One>>

\* Vector3.length / distanceTo, computed at a resolution of 0.01 so that the
\* squares of scene-sized coordinates stay inside 32-bit integers.
VLength(a) ==
    10 * Isqrt((a[1] \div 10) * (a[1] \div 10) + (a[2] \div 10) * (a[2] \div 10)
               + (a[3] \div 10) * (a[3] \div 10))

\* THREE.MathUtils.lerp(x, y, t) = (1 - t) * x + t * y
Lerp(x, y, t) == ((One - t) * x + t * y) \div One

\* Vector3.lerpVectors(v1, v2, alpha) = v1 + (v2 - v1) * alpha
LerpVectors(v1, v2, alpha) == VAdd(v1, VScale(VSub(v2, v1), alpha))

\* THREE.Spherical as [radius, phi, theta]
Spherical(radius, phi, theta) == [radius |-> radius, phi |-> phi, theta |-> theta]

\* Spherical.setFromVector3
SetFromVector3(v) ==
    LET radius == VLength(v)
    IN  IF radius = 0 THEN Spherical(0, 0, 0)
        ELSE Spherical(radius, Acos(v[2], radius), Atan2(v[1], v[3]))

\* Vector3.setFromSpherical
SetFromSpherical(s) ==
    LET sinPhiRadius == (Sin(s.phi) * s.radius) \div One
    IN  <<(sinPhiRadius * Sin(s.theta)) \div One,
          (Cos(s.phi) * s.radius) \div One,
          (sinPhiRadius * Cos(s.theta)) \div One>>

----------------------------------------------------------------------------
(* Bounds of the model *)

\* flights that may be started in one behaviour
MaxFlights == 2

MaxViewerFlights == 2

\* last timestamp (ms) an animation frame may carry
MaxTime == 2300

\* a flight is only requested while performance.now() <= MaxStart, so that
\* it can run to its end before MaxTime
MaxStart == 100

\* time between two animation frames (ms)
FrameSteps == {100, 700}

----------------------------------------------------------------------------
(* Scene data the flights are asked for *)

\* Object3D targets of flyToCamera: world position and the direction
\* (0, 0, -1) turned by the object's quaternion
CameraInputs ==
    { [name |-> "camera_top", pos |-> <<0, 20000, 0>>, dir |-> <<0, -One, 0>>],
      [name |-> "camera_b", pos |-> <<5000, 2000, 5000>>, dir |-> <<0, 0, -One>>] }

ZoomInputs == {One, 2 * One}

\* arguments of flyToPoint: its defaults, the callers' values and an azimuth
\* of two full turns
DefaultDistance == 200

DefaultPolarAngle == PI \div 4

PointRequests ==
    { [point |-> <<2000, 500, 1000>>, distance |-> DefaultDistance,
       polarAngle |-> DefaultPolarAngle, azimuthAngle |-> 0],
      [point |-> <<0, 0, 0>>, distance |-> 1500, polarAngle |-> 0, azimuthAngle |-> 0],
      [point |-> <<0, 100, 0>>, distance |-> 500, polarAngle |-> PI \div 4,
       azimuthAngle |-> PI \div 3],
      [point |-> <<0, 100, 0>>, distance |-> 500, polarAngle |-> PI \div 4,
       azimuthAngle |-> 2 * TWO_PI] }

----------------------------------------------------------------------------
(* State *)

VARIABLES
    now,            \* performance.now() / the timestamp of the current frame
    rafQueue,       \* callbacks registered by requestAnimationFrame for the next frame
    frameQueue,     \* callbacks of the frame being run that have not run yet
    flights,        \* closure state of every animate callback, in start order
    cameraPosition, \* camera.position
    controls,       \* the OrbitControls fields the manager writes
    saved,          \* what controls.saveState() stored last
    cameraLocked,   \* CameraManager.cameraLocked
    lastWriter,     \* history: the flight whose tick wrote the pose last (0: none)
    frameRan,       \* history: the flights that have ticked in the current frame
    finished,       \* history: the flights in the order of their last tick
    tap,            \* the Vector2 shared by the pointerdown and pointerup handlers
    downAt,         \* history: where the last pointerdown was (<<>>: none yet)
    outline,        \* RenderManager.outlineEffect: selection, blend opacity, parameters
    tablePosition,  \* anchor of the table popup
    loadState,      \* "loading" until a callback of loader.load has run
    scene,          \* the nodes of the model once it is in the scene
    tableSelectors, \* groups collected from the loaded model
    glbCameras,     \* CameraManager.glbCameras
    timers,         \* pending setTimeout callbacks
    loadingScreen,  \* style of the loading overlay
    alerts,         \* number of alert() dialogs shown
    standalone,     \* the standalone viewer: camera, controls, lock flag, GLB cameras
    saFlights,      \* closure state of every animateFly callback of the standalone viewer
    saRaf,          \* its callbacks registered for the next frame
    saFrame,        \* its callbacks of the frame being run that have not run yet
    lights,         \* the light objects of the model handed to the LightManager
    glbLights,      \* LightManager.glbLights, as indices into lights
    glbPointLights, \* LightManager.glbPointLights
    glbSpotLights,  \* LightManager.glbSpotLights
    glbDirectionalLights, \* LightManager.glbDirectionalLights
    popup,          \* style of the table popup element
    courtLabels,    \* the labels of the standalone viewer: anchor and element style
    toneMappingMode, \* RenderManager.toneMappingEffect.mode
    warnings,       \* number of console.warn calls of the RenderManager
    chain,          \* a parent chain handed to findTableRoot, topmost node first
    videos,         \* the VideoScreen objects, in the order of their construction
    highlight,      \* the mesh browser: materials, highlightedMesh, originalMaterial
    gui,            \* the developer panel: "null" until initDevGUI has run
    devSettings,    \* the fields of devSettings bound to the developer panel
    ambientLight,   \* LightManager.ambientLight (null before setupBaseLighting)
    directionalLight, \* LightManager.directionalLight
    lastEvent       \* history: the handler that ran last, with its inputs

cameraVars == <<cameraPosition, controls, saved, cameraLocked>>

frameVars == <<now, rafQueue, frameQueue, flights, lastWriter, frameRan, finished>>

viewerVars ==
    <<tap, downAt, outline, tablePosition, loadState, scene, tableSelectors, glbCameras,
      timers, loadingScreen>>

overlayVars == <<popup, courtLabels>>

renderVars == <<toneMappingMode, warnings>>

standaloneVars == <<standalone, saFlights, saRaf, saFrame>>

lightVars == <<lights, glbLights, glbPointLights, glbSpotLights, glbDirectionalLights>>

\* what only the callbacks of loader.load write
loadVars == <<lightVars, alerts>>

\* what neither the camera flights nor the tap handlers touch
pageVars == <<videos, highlight, gui, devSettings, ambientLight, directionalLight>>

widgetVars == <<overlayVars, renderVars, chain, standaloneVars, pageVars>>

vars == <<cameraVars, frameVars, viewerVars, widgetVars, loadVars, lastEvent>>

----------------------------------------------------------------------------
(* CameraManager *)

FlyToPointDuration == 1200

FlyToCameraDuration == 1500

\* 2 * t * t
EaseIn(t) == (2 * t * t) \div One

\* 1 - Math.pow(-2 * t + 2, 2) / 2
EaseOut(t) == One - (((2 * One - 2 * t) * (2 * One - 2 * t)) \div One) \div 2

\* an easing that never leaves the first branch
EasedQuadIn(t) == EaseIn(t)

\* quadratic ease-in-out of both animate callbacks
Eased(t) == IF 2 * t < One THEN EaseIn(t) ELSE EaseOut(t)

\* mutant: progress is not clamped to 1
ProgressUnclamped(time, startTime, duration) ==
    ((time - startTime) * One) \div duration

\* Math.min((time - startTime) / duration, 1)
Progress(time, startTime, duration) ==
    Min(((time - startTime) * One) \div duration, One)

\* shortest-path azimuth delta of flyToPoint
DeltaTheta(endTheta, startTheta) ==
    LET d0 == endTheta - startTheta
        d1 == IF d0 > PI THEN d0 - TWO_PI ELSE d0
    IN  IF d1 < -PI THEN d1 + TWO_PI ELSE d1

\* constructor and initOrbitControls
InitControls ==
    [ target |-> <<0, 0, 0>>,
      enableDamping |-> TRUE,
      enableRotate |-> TRUE,
      enablePan |-> TRUE,
      enableZoom |-> TRUE,
      minDistance |-> 100,
      maxDistance |-> 3 * One,
      minPolarAngle |-> 0,
      maxPolarAngle |-> 1521 ]

InitCamera ==
    /\ cameraPosition = <<50 * One, 30 * One, 50 * One>>
    /\ controls = InitControls
    /\ saved = [target |-> <<0, 0, 0>>, position |-> <<50 * One, 30 * One, 50 * One>>]
    /\ cameraLocked = FALSE

InitFrames ==
    /\ now = 0
    /\ rafQueue = <<>>
    /\ frameQueue = <<>>
    /\ flights = <<>>
    /\ lastWriter = 0
    /\ frameRan = {}
    /\ finished = <<>>

\* a script may run only between frames, and the model bounds the flights
MayRequest == frameQueue = <<>> /\ Len(flights) < MaxFlights /\ now <= MaxStart

\* mutant: the newest callback runs first in the next frame
RegisterFirst(flight) ==
    /\ flights' = Append(flights, flight)
    /\ rafQueue' = <<Len(flights) + 1>> \o rafQueue

\* requestAnimationFrame(animate) of a new flight
Register(flight) ==
    /\ flights' = Append(flights, flight)
    /\ rafQueue' = Append(rafQueue, Len(flights) + 1)

PointFlight(point, distance, polarAngle, azimuthAngle) ==
    [ kind |-> "point",
      startTime |-> now,
      duration |-> FlyToPointDuration,
      startPos |-> cameraPosition,
      startTarget |-> controls.target,
      startSpherical |-> SetFromVector3(VSub(cameraPosition, controls.target)),
      endSpherical |-> Spherical(distance, polarAngle, azimuthAngle),
      point |-> point,
      targetPos |-> point,
      locked |-> FALSE,
      done |-> FALSE ]

flyToPoint(point, distance, polarAngle, azimuthAngle) ==
    Register(PointFlight(point, distance, polarAngle, azimuthAngle))

\* targetPos of flyToCamera after the zoom multiplier
ZoomedTargetPos(cam, zoomMultiplier) ==
    LET lookAtPoint == VAdd(cam.pos, VScale(cam.dir, 10 * One))
    IN  IF zoomMultiplier # One
        THEN LET currentDistance == VLength(VSub(cam.pos, lookAtPoint))
                 newDistance == (currentDistance * One) \div zoomMultiplier
             IN  VSub(lookAtPoint, VScale(cam.dir, newDistance))
        ELSE cam.pos

CameraFlight(cam, locked, zoomMultiplier) ==
    [ kind |-> "camera",
      startTime |-> now,
      duration |-> FlyToCameraDuration,
      startPos |-> cameraPosition,
      startTarget |-> controls.target,
      startSpherical |-> Spherical(0, 0, 0),
      endSpherical |-> Spherical(0, 0, 0),
      point |-> VAdd(cam.pos, VScale(cam.dir, 10 * One)),
      targetPos |-> ZoomedTargetPos(cam, zoomMultiplier),
      locked |-> locked,
      done |-> FALSE ]

flyToCamera(cam, locked, zoomMultiplier) ==
    /\ Register(CameraFlight(cam, locked, zoomMultiplier))
    /\ cameraLocked' = locked
    /\ controls' = [controls EXCEPT !.minDistance = 0, !.maxDistance = Infinity]
    /\ UNCHANGED <<cameraPosition, saved>>

\* the pose a flyToPoint tick writes at eased progress e
PointPose(f, e) ==
    LET deltaTheta == DeltaTheta(f.endSpherical.theta, f.startSpherical.theta)
        spherical == Spherical(Lerp(f.startSpherical.radius, f.endSpherical.radius, e),
                               Lerp(f.startSpherical.phi, f.endSpherical.phi, e),
                               f.startSpherical.theta + (deltaTheta * e) \div One)
        currentTarget == LerpVectors(f.startTarget, f.point, e)
    IN  [position |-> VAdd(SetFromSpherical(spherical), currentTarget),
         target |-> currentTarget]

\* the pose a flyToCamera tick writes at eased progress e
CameraPose(f, e) ==
    [position |-> LerpVectors(f.startPos, f.targetPos, e),
     target |-> LerpVectors(f.startTarget, f.point, e)]

\* if (t < 1) requestAnimationFrame(animate), and the history of the tick
Reschedule(id, t) ==
    /\ frameQueue' = Tail(frameQueue)
    /\ rafQueue' = IF t < One THEN Append(rafQueue, id) ELSE rafQueue
    /\ flights' = [flights EXCEPT ![id].done = ~(t < One)]
    /\ finished' = IF t < One THEN finished ELSE Append(finished, id)
    /\ lastWriter' = id
    /\ frameRan' = frameRan \cup {id}

\* an animate of flyToPoint that starts each tick from the target it finds
AnimatePointFromCurrent(id) ==
    LET f == flights[id]
        t == Progress(now, f.startTime, f.duration)
        pose == PointPose([f EXCEPT !.startTarget = controls.target], Eased(t))
    IN  /\ f.kind = "point"
        /\ cameraPosition' = pose.position
        /\ controls' = [controls EXCEPT !.target = pose.target]
        /\ Reschedule(id, t)
        /\ UNCHANGED <<saved, cameraLocked, now>>

\* animate of flyToPoint
AnimatePoint(id) ==
    LET f == flights[id]
        t == Progress(now, f.startTime, f.duration)
        pose == PointPose(f, Eased(t))
    IN  /\ f.kind = "point"
        /\ cameraPosition' = pose.position
        /\ controls' = [controls EXCEPT !.target = pose.target]
        /\ Reschedule(id, t)
        /\ UNCHANGED <<saved, cameraLocked, now>>

\* mutant: the last tick always leaves rotation enabled
TerminalControlsFree(f) ==
    [controls EXCEPT
        !.target = f.point,
        !.minDistance = 100,
        !.maxDistance = 500 * One,
        !.enableZoom = TRUE,
        !.enableRotate = TRUE,
        !.enablePan = ~f.locked,
        !.minPolarAngle = 100,
        !.maxPolarAngle = 3042,
        !.enableDamping = FALSE]

\* the controls after the last tick of flyToCamera ("Animation complete")
TerminalControls(f) ==
    [controls EXCEPT
        !.target = f.point,
        !.minDistance = 100,
        !.maxDistance = 500 * One,
        !.enableZoom = TRUE,
        !.enableRotate = ~f.locked,
        !.enablePan = ~f.locked,
        !.minPolarAngle = 100,
        !.maxPolarAngle = 3042,
        !.enableDamping = FALSE]

\* animate of flyToCamera
AnimateCamera(id) ==
    LET f == flights[id]
        progress == Progress(now, f.startTime, f.duration)
        pose == CameraPose(f, Eased(progress))
    IN  /\ f.kind = "camera"
        /\ cameraPosition' = pose.position
        /\ IF progress < One
           THEN /\ controls' = [controls EXCEPT !.target = pose.target]
                /\ saved' = saved
           ELSE /\ controls' = TerminalControls(f)
                /\ saved' = [target |-> f.point, position |-> pose.position]
        /\ Reschedule(id, progress)
        /\ UNCHANGED <<cameraLocked, now>>

----------------------------------------------------------------------------
(* The loaded model: the Object3D nodes of gltf.scene in traversal order, with *)
(* their names, parents, bounding-box centres and world positions             *)

SceneNodes ==
    <<
       [name |-> <<"S", "c", "e", "n", "e">>,
        parent |-> 0, kind |-> "group", center |-> <<0, 0, 0>>, worldPosition |-> <<0, 0, 0>>],
       [name |-> <<"V", "I", "P", "_", "A">>,
        parent |-> 1, kind |-> "group", center |-> <<2000, 500, 1000>>, worldPosition |-> <<2000, 0, 1000>>],
       [name |-> <<"t", "a", "b", "l", "e", "_", "s", "e", "l", "e", "c", "t", "o", "r", "_", "A">>,
        parent |-> 2, kind |-> "mesh", center |-> <<2000, 500, 1030>>, worldPosition |-> <<2000, 500, 1030>>],
       [name |-> <<"T", "a", "b", "l", "e", "T", "o", "p">>,
        parent |-> 3, kind |-> "mesh", center |-> <<2000, 700, 1030>>, worldPosition |-> <<2000, 700, 1030>>],
       [name |-> <<"V", "I", "P", "_", "B">>,
        parent |-> 2, kind |-> "group", center |-> <<3000, 500, 1000>>, worldPosition |-> <<3000, 0, 1000>>],
       [name |-> <<"t", "a", "b", "l", "e", "_", "s", "e", "l", "e", "c", "t", "o", "r", "_", "B">>,
        parent |-> 5, kind |-> "mesh", center |-> <<3050, 500, 1000>>, worldPosition |-> <<3050, 500, 1000>>],
       [name |-> <<"S", "e", "a", "t">>,
        parent |-> 6, kind |-> "mesh", center |-> <<3050, 300, 1000>>, worldPosition |-> <<3050, 300, 1000>>],
       [name |-> <<"t", "a", "b", "l", "e", "_", "s", "e", "l", "e", "c", "t", "o", "r", "_", "A", "2">>,
        parent |-> 1, kind |-> "mesh", center |-> <<2010, 500, 1000>>, worldPosition |-> <<2010, 500, 1000>>],
       [name |-> <<"F", "l", "o", "o", "r">>,
        parent |-> 1, kind |-> "mesh", center |-> <<0, 0, 0>>, worldPosition |-> <<0, 0, 0>>],
       [name |-> <<"x", "V", "I", "P", "_", "C">>,
        parent |-> 1, kind |-> "group", center |-> <<4000, 500, 1000>>, worldPosition |-> <<4000, 0, 1000>>],
       [name |-> <<"C", "h", "a", "i", "r">>,
        parent |-> 10, kind |-> "mesh", center |-> <<4000, 500, 1000>>, worldPosition |-> <<4000, 500, 1000>>],
       [name |-> <<"c", "a", "m", "e", "r", "a", "_", "t", "o", "p">>,
        parent |-> 1, kind |-> "camera", center |-> <<0, 20000, 0>>, worldPosition |-> <<0, 20000, 0>>],
       [name |-> <<"c", "a", "m", "e", "r", "a", "_", "b">>,
        parent |-> 1, kind |-> "camera", center |-> <<5000, 2000, 5000>>, worldPosition |-> <<5000, 2000, 5000>>]
    >>

\* size and bounding-box centre of the model, window size, field of view
ModelWidth == 40 * One

ModelHeight == 10 * One

ModelCenter == <<0, 2 * One, 0>>

InnerWidth == 800

InnerHeight == 600

TanHalfFov == 414

\* where the pointer goes down and up (clientX, clientY)
DownPositions == {<<100, 100>>, <<3, 3>>}

UpPositions == {<<104, 103>>, <<100, 106>>, <<110, 110>>, <<3, 3>>}

----------------------------------------------------------------------------
(* RenderManager: the outline effect *)

MeshCount == 3

Meshes == 1..MeshCount

\* every mesh of the loaded model carries its own material (the number of
\* the mesh); highlightedMesh and originalMaterial start as null (0); timers
\* holds the meshes of the pending 3000 ms callbacks, oldest first
InitHighlight ==
    [ material |-> [m \in Meshes |-> m],
      highlightedMesh |-> 0,
      originalMaterial |-> 0,
      timers |-> <<>>,
      made |-> 0 ]

InitOutline ==
    [ selection |-> <<>>,
      opacity |-> One,
      visibleEdgeColor |-> 65336,
      edgeStrength |-> 10 * One,
      pulseSpeed |-> 300 ]

\* RenderManager.selectOutlineObjects
selectOutlineObjects(o, objects) == [o EXCEPT !.selection = objects, !.opacity = One]

----------------------------------------------------------------------------
(* CameraManager: locking *)

\* mutant: unlocking leaves panning as it was
unlockControlsKeepPan ==
    /\ cameraLocked' = FALSE
    /\ controls' = [controls EXCEPT !.enableRotate = TRUE, !.enableZoom = TRUE]

\* CameraManager.unlockControls
unlockControls ==
    /\ cameraLocked' = FALSE
    /\ controls' = [controls EXCEPT !.enableRotate = TRUE, !.enablePan = TRUE,
                                    !.enableZoom = TRUE]

\* CameraManager.lockControls
lockControls ==
    /\ cameraLocked' = TRUE
    /\ controls' = [controls EXCEPT !.enableRotate = FALSE, !.enablePan = FALSE]

\* CameraManager.fitToModel: the camera position and the orbit target
FitToModel ==
    LET aspect == (InnerWidth * One) \div InnerHeight
        tanHalfHFov == (TanHalfFov * aspect) \div One
        distanceToFitWidth == ((ModelWidth \div 2) * One) \div tanHalfHFov
        finalDistance == (distanceToFitWidth * 850) \div One
    IN  [position |-> <<(finalDistance * 700) \div One, (finalDistance * 500) \div One,
                        (finalDistance * 700) \div One>>,
         target |-> <<0, (ModelHeight * 300) \div One, 0>>]

----------------------------------------------------------------------------
(* The viewer: tap to select *)

DragThreshold == 6

PopupLift == 17

SelectorThreshold == 50

\* String.prototype.startsWith on names held as sequences of characters
StartsWith(name, prefix) ==
    /\ Len(name) >= Len(prefix)
    /\ SubSeq(name, 1, Len(prefix)) = prefix

VipPrefix == <<"V", "I", "P", "_">>

SelectorPrefix == <<"t", "a", "b", "l", "e", "_", "s", "e", "l", "e", "c", "t", "o", "r", "_">>

\* mutant: the walk starts at the parent of the hit object
RECURSIVE findTableRootAbove(_, _)
findTableRootAbove(nodes, obj) ==
    IF obj = 0 THEN 0
    ELSE LET current == nodes[obj].parent
         IN  IF current = 0 THEN 0
             ELSE IF StartsWith(nodes[current].name, VipPrefix) THEN current
             ELSE findTableRootAbove(nodes, current)

\* findTableRoot: 0 stands for null
RECURSIVE findTableRoot(_, _)
findTableRoot(nodes, obj) ==
    IF obj = 0 THEN 0
    ELSE IF StartsWith(nodes[obj].name, VipPrefix) THEN obj
    ELSE findTableRoot(nodes, nodes[obj].parent)

\* Math.hypot(dx, dy) > limit, for dx, dy, limit in fixed point
HypotExceeds(dx, dy, limit) ==
    \/ Abs(dx) > limit
    \/ Abs(dy) > limit
    \/ dx * dx + dy * dy > limit * limit

\* "was drag": the pointer-up position against what the shared vector holds
WasDrag(pos) ==
    HypotExceeds(pos[1] * One - tap.x, pos[2] * One - tap.y, DragThreshold * One)

\* the normalized device coordinates the pointerup handler writes into tap
ToNdc(pos) ==
    [x |-> ((pos[1] * One) \div InnerWidth) * 2 - One,
     y |-> -(((pos[2] * One) \div InnerHeight) * 2) + One]

\* Vector3.distanceTo for nearby points
DistanceTo(a, b) ==
    LET d == VSub(a, b)
    IN  Isqrt(d[1] * d[1] + d[2] * d[2] + d[3] * d[3])

\* the children of a node, in order
Children(nodes, n) ==
    LET idx == {i \in 1..Len(nodes) : nodes[i].parent = n}
        RECURSIVE up(_, _)
        up(i, acc) ==
            IF i > Len(nodes) THEN acc
            ELSE up(i + 1, IF i \in idx THEN Append(acc, i) ELSE acc)
    IN  up(1, <<>>)

\* the table selector groups model.traverse collects: each selector node
\* followed by its children
RECURSIVE CollectSelectors(_, _, _)
CollectSelectors(nodes, i, acc) ==
    IF i > Len(nodes) THEN acc
    ELSE CollectSelectors(nodes, i + 1,
            IF StartsWith(nodes[i].name, SelectorPrefix)
            THEN Append(acc, <<i>> \o Children(nodes, i))
            ELSE acc)

\* the cameras model.traverse registers
RECURSIVE CollectCameras(_, _, _)
CollectCameras(nodes, i, acc) ==
    IF i > Len(nodes) THEN acc
    ELSE CollectCameras(nodes, i + 1,
            IF nodes[i].kind = "camera" THEN Append(acc, i) ELSE acc)

\* mutant: the loop does not break, so the last matching group stays selected
RECURSIVE SelectLast(_, _, _)
SelectLast(o, center, i) ==
    IF i > Len(tableSelectors) THEN o
    ELSE SelectLast(
            IF DistanceTo(scene[tableSelectors[i][1]].worldPosition, center)
                   < SelectorThreshold
            THEN selectOutlineObjects(o, tableSelectors[i]) ELSE o,
            center, i + 1)

\* the loop over tableSelectors of the pointerup handler, from index i
RECURSIVE SelectLoop(_, _, _)
SelectLoop(o, center, i) ==
    IF i > Len(tableSelectors) THEN o
    ELSE IF DistanceTo(scene[tableSelectors[i][1]].worldPosition, center)
                < SelectorThreshold
         THEN selectOutlineObjects(o, tableSelectors[i])
         ELSE SelectLoop(o, center, i + 1)

\* what raycaster.intersectObjects(scene.children, true) may report first:
\* nothing (0), or an object of the model once it is in the scene
Hits == 0..Len(scene)

InitViewer ==
    /\ tap = [x |-> 0, y |-> 0]
    /\ downAt = <<>>
    /\ outline = InitOutline
    /\ tablePosition = <<0, 1000 * One, 0>>
    /\ loadState = "loading"
    /\ scene = <<>>
    /\ tableSelectors = <<>>
    /\ glbCameras = <<>>
    /\ timers = {}
    /\ loadingScreen = [opacity |-> "", display |-> ""]
    /\ alerts = 0
    /\ lastEvent = [type |-> "init"]

\* the elements and effects of the page before any callback has run
InitPage ==
    /\ popup = [display |-> "", x |-> 0, y |-> 0, tilt |-> 0]
    /\ courtLabels = <<>>
    /\ toneMappingMode = "ACES_FILMIC"
    /\ warnings = 0

\* deselectTable
deselectTable ==
    /\ outline' = selectOutlineObjects(outline, <<>>)
    /\ tablePosition' = <<0, 10000 * One, 0>>

----------------------------------------------------------------------------
(* Names: strings as sequences of characters *)

LowerChar(c) ==
    LET upper == <<"A", "B", "C", "D", "E", "F", "G", "H", "I", "J", "K", "L", "M",
                   "N", "O", "P", "Q", "R", "S", "T", "U", "V", "W", "X", "Y", "Z">>
        lower == <<"a", "b", "c", "d", "e", "f", "g", "h", "i", "j", "k", "l", "m",
                   "n", "o", "p", "q", "r", "s", "t", "u", "v", "w", "x", "y", "z">>
    IN  IF \E i \in 1..Len(upper) : upper[i] = c
        THEN lower[CHOOSE i \in 1..Len(upper) : upper[i] = c]
        ELSE c

\* String.prototype.toLowerCase
ToLowerCase(name) == [i \in 1..Len(name) |-> LowerChar(name[i])]

\* String.prototype.includes
Includes(name, part) ==
    \E i \in 0..(Len(name) - Len(part)) : SubSeq(name, i + 1, i + Len(part)) = part

----------------------------------------------------------------------------
(* LightManager *)

\* shadow fields are kept in ten-thousandths, light fields in thousandths
Fine == 10000

\* the keywords applyLightPresets looks for in the names
Keyword ==
    [ purple |-> <<"p", "u", "r", "p", "l", "e">>,
      pink |-> <<"p", "i", "n", "k">>,
      spot |-> <<"s", "p", "o", "t">> ]

\* LIGHT_PRESETS
LIGHT_PRESETS ==
    [ purple |-> [intensity |-> 39 * One, color |-> "#4700ff", distance |-> 100 * One,
                  decay |-> 0],
      pink |-> [intensity |-> 7 * One, color |-> "#d400ff", distance |-> 0, decay |-> 0],
      spot |-> [intensity |-> 24 * One, color |-> "#ffc4af", distance |-> 0, angle |-> 10,
                penumbra |-> One, decay |-> (14 * One) \div 10] ]

\* SHADOW_CONFIG
SHADOW_CONFIG ==
    [ mapSize |-> 2048,
      bias |-> -1,
      normalBias |-> (2 * Fine) \div 100,
      radius |-> 2 * Fine,
      camera |-> [near |-> Fine \div 10, far |-> 100 * Fine, left |-> -50 * Fine,
                  right |-> 50 * Fine, top |-> 50 * Fine, bottom |-> -50 * Fine] ]

\* THREE.MathUtils.degToRad, in thousandths of a radian
DegToRad(deg) == (deg * 3142) \div 180

\* the shadow a light of a kind is created with: LightShadow over a
\* perspective camera (point, spot) or an orthographic one (directional)
NewShadow(type) ==
    [ exists |-> TRUE,
      mapSize |-> [width |-> 512, height |-> 512],
      bias |-> 0,
      normalBias |-> 0,
      radius |-> Fine,
      camera |->
          IF type = "directional"
          THEN [near |-> Fine \div 2, far |-> 500 * Fine, left |-> -5 * Fine,
                right |-> 5 * Fine, top |-> 5 * Fine, bottom |-> -5 * Fine]
          ELSE [near |-> Fine \div 2, far |-> 500 * Fine,
                fov |-> IF type = "point" THEN 90 ELSE 50] ]

\* an object of a loaded model as the loader creates it; lights that are not
\* point, spot or directional lights have no shadow
GltfObject(name, type) ==
    [ name |-> name,
      type |-> type,
      intensity |-> One,
      color |-> "#ffffff",
      distance |-> 0,
      decay |-> 2 * One,
      visible |-> TRUE,
      castShadow |-> FALSE,
      angle |-> DegToRad(60),
      penumbra |-> 0,
      shadow |-> IF type \in {"point", "spot", "directional"} THEN NewShadow(type)
                 ELSE [exists |-> FALSE] ]

\* the capability flags of an object
isLight(o) == o.type \in {"point", "spot", "directional", "hemisphere"}

isPointLight(o) == o.type = "point"

isSpotLight(o) == o.type = "spot"

isDirectionalLight(o) == o.type = "directional"

\* the models that may be loaded: their objects in traversal order
LightModels ==
    { << GltfObject(<<"P", "u", "r", "p", "l", "e", "_", "0", "1">>, "point"),
         GltfObject(<<"p", "i", "n", "k", "_", "P", "U", "R", "P", "L", "E">>, "point"),
         GltfObject(<<"S", "p", "o", "t", "_", "1">>, "spot") >>,
      << GltfObject(<<"s", "p", "o", "t", "_", "f", "i", "l", "l">>, "point"),
         GltfObject(<<"p", "u", "r", "p", "l", "e", "_", "b", "e", "a", "m">>, "spot"),
         GltfObject(<<"S", "u", "n", "_", "s", "p", "o", "t">>, "directional") >>,
      << GltfObject(<<"P", "I", "N", "K">>, "point"),
         GltfObject(<<"L", "a", "m", "p">>, "point"),
         GltfObject(<<"H", "e", "m", "i">>, "hemisphere"),
         GltfObject(<<"p", "u", "r", "p", "l", "e", "_", "m", "e", "s", "h">>, "mesh") >>,
      << GltfObject(<<"P", "u", "r", "p", "l", "e", "_", "0", "1">>, "point"),
         GltfObject(<<"P", "u", "r", "p", "l", "e", "_", "0", "1">>, "point") >>,
      <<>> }

\* LightManager.configureShadows
configureShadows(light, type) ==
    IF ~light.shadow.exists THEN light
    ELSE LET common == [light.shadow EXCEPT
                           !.mapSize = [width |-> SHADOW_CONFIG.mapSize,
                                        height |-> SHADOW_CONFIG.mapSize],
                           !.bias = SHADOW_CONFIG.bias,
                           !.normalBias = SHADOW_CONFIG.normalBias,
                           !.radius = SHADOW_CONFIG.radius]
             cam == light.shadow.camera
             near == [n \in {"near"} |-> SHADOW_CONFIG.camera.near]
             far == [n \in {"far"} |-> SHADOW_CONFIG.camera.far]
         IN  [light EXCEPT !.shadow =
                [common EXCEPT !.camera =
                    CASE type = "point" -> near @@ far @@ cam
                      [] type = "spot" -> near @@ far @@ [n \in {"fov"} |-> 50] @@ cam
                      [] type = "directional" ->
                            [n \in {"near"} |-> Fine \div 2]
                            @@ [n \in {"far"} |-> 500 * Fine]
                            @@ [n \in {"left"} |-> SHADOW_CONFIG.camera.left]
                            @@ [n \in {"right"} |-> SHADOW_CONFIG.camera.right]
                            @@ [n \in {"top"} |-> SHADOW_CONFIG.camera.top]
                            @@ [n \in {"bottom"} |-> SHADOW_CONFIG.camera.bottom]
                            @@ cam]]

\* a point light preset that leaves the decay of the light alone
applyPointLightPresetKeepDecay(light, preset) ==
    [light EXCEPT !.visible = TRUE, !.intensity = preset.intensity,
                  !.color = preset.color, !.distance = preset.distance]

\* LightManager.applyPointLightPreset
applyPointLightPreset(light, preset) ==
    [light EXCEPT !.visible = TRUE, !.intensity = preset.intensity,
                  !.color = preset.color, !.distance = preset.distance,
                  !.decay = preset.decay]

\* LightManager.applySpotLightPreset
applySpotLightPreset(light, preset) ==
    [light EXCEPT !.visible = TRUE, !.intensity = preset.intensity,
                  !.color = preset.color, !.distance = preset.distance,
                  !.angle = DegToRad(preset.angle), !.penumbra = preset.penumbra,
                  !.decay = preset.decay]

\* the presets the callback of glbPointLights.forEach applies to a light that
\* takes the first branch whatever the name holds besides
PointPresetNamesAll(light) ==
    LET name == ToLowerCase(light.name)
    IN  (IF Includes(name, Keyword.purple) THEN <<"purple">> ELSE <<>>)
        \o (IF Includes(name, Keyword.pink) THEN <<"pink">> ELSE <<>>)

\* the presets the callback of glbPointLights.forEach in applyLightPresets
\* applies to a light, in order
PointPresetNames(light) ==
    LET name == ToLowerCase(light.name)
    IN  IF Includes(name, Keyword.purple) THEN <<"purple">>
        ELSE IF Includes(name, Keyword.pink) THEN <<"pink">>
        ELSE <<>>

\* the presets the callback of glbSpotLights.forEach in applyLightPresets
\* applies to a light
SpotPresetNames(light) ==
    IF Includes(ToLowerCase(light.name), Keyword.spot) THEN <<"spot">> ELSE <<>>

\* a light after the presets of the given names, one after the other
RECURSIVE ApplyPresets(_, _)
ApplyPresets(light, names) ==
    IF names = <<>> THEN light
    ELSE ApplyPresets(IF Head(names) = "spot"
                      THEN applySpotLightPreset(light, LIGHT_PRESETS.spot)
                      ELSE applyPointLightPreset(light, LIGHT_PRESETS[Head(names)]),
                      Tail(names))

InSeq(q, x) == \E i \in 1..Len(q) : q[i] = x

\* the objects after LightManager.applyLightPresets, given the two buckets
PresetsApplied(objects, pointLights, spotLights) ==
    LET afterPoint == [i \in 1..Len(objects) |->
                          IF InSeq(pointLights, i)
                          THEN ApplyPresets(objects[i], PointPresetNames(objects[i]))
                          ELSE objects[i]]
    IN  [i \in 1..Len(objects) |->
            IF InSeq(spotLights, i)
            THEN ApplyPresets(afterPoint[i], SpotPresetNames(afterPoint[i]))
            ELSE afterPoint[i]]

\* the names of the presets one applyLightPresets call applies to each object
PresetNames(objects, pointLights, spotLights) ==
    [i \in 1..Len(objects) |->
        (IF InSeq(pointLights, i) THEN PointPresetNames(objects[i]) ELSE <<>>)
        \o (IF InSeq(spotLights, i) THEN SpotPresetNames(objects[i]) ELSE <<>>)]

\* the callback of model.traverse in processGLBLights, on one object
TraversedLight(o) ==
    IF ~isLight(o) THEN o
    ELSE LET light == [o EXCEPT !.castShadow = FALSE]
         IN  IF isPointLight(light)
             THEN configureShadows([light EXCEPT !.decay = 2 * One, !.distance = 0], "point")
             ELSE IF isSpotLight(light)
             THEN configureShadows([light EXCEPT !.penumbra = One \div 2, !.decay = 2 * One],
                                   "spot")
             ELSE IF isDirectionalLight(light) THEN configureShadows(light, "directional")
             ELSE light

\* the indices, in traversal order, of the objects pushed to one of the four arrays
RECURSIVE Bucket(_, _, _, _)
Bucket(objects, array, i, acc) ==
    IF i > Len(objects) THEN acc
    ELSE LET o == objects[i]
             pushed ==
                 /\ isLight(o)
                 /\ CASE array = "glbLights" -> TRUE
                      [] array = "glbPointLights" -> isPointLight(o)
                      [] array = "glbSpotLights" -> ~isPointLight(o) /\ isSpotLight(o)
                      [] array = "glbDirectionalLights" ->
                            ~isPointLight(o) /\ ~isSpotLight(o) /\ isDirectionalLight(o)
         IN  Bucket(objects, array, i + 1, IF pushed THEN Append(acc, i) ELSE acc)

\* processGLBLights without the reset of the four arrays
processGLBLightsKeeping(model) ==
    LET traversed == [i \in 1..Len(model) |-> TraversedLight(model[i])]
        pointLights == Bucket(model, "glbPointLights", 1, glbPointLights)
        spotLights == Bucket(model, "glbSpotLights", 1, glbSpotLights)
        directionalLights == Bucket(model, "glbDirectionalLights", 1, glbDirectionalLights)
    IN  [ glbLights |-> Bucket(model, "glbLights", 1, glbLights),
          glbPointLights |-> pointLights,
          glbSpotLights |-> spotLights,
          glbDirectionalLights |-> directionalLights,
          lights |-> PresetsApplied(traversed, pointLights, spotLights) ]

\* LightManager.processGLBLights(model): the buckets and the objects afterwards
processGLBLights(model) ==
    LET traversed == [i \in 1..Len(model) |-> TraversedLight(model[i])]
        pointLights == Bucket(model, "glbPointLights", 1, <<>>)
        spotLights == Bucket(model, "glbSpotLights", 1, <<>>)
        directionalLights == Bucket(model, "glbDirectionalLights", 1, <<>>)
    IN  [ glbLights |-> Bucket(model, "glbLights", 1, <<>>),
          glbPointLights |-> pointLights,
          glbSpotLights |-> spotLights,
          glbDirectionalLights |-> directionalLights,
          lights |-> PresetsApplied(traversed, pointLights, spotLights) ]

\* the lights of the viewer's model, in traversal order
ModelLights ==
    << GltfObject(<<"P", "u", "r", "p", "l", "e", "_", "0", "1">>, "point"),
       GltfObject(<<"S", "p", "o", "t", "_", "1">>, "spot"),
       GltfObject(<<"S", "u", "n">>, "directional") >>

InitLights ==
    /\ lights = <<>>
    /\ glbLights = <<>>
    /\ glbPointLights = <<>>
    /\ glbSpotLights = <<>>
    /\ glbDirectionalLights = <<>>

\* the standalone viewer before initThreeJS has run
\* the null of the LightManager's ambientLight and directionalLight fields
NullLight == [null |-> TRUE]

\* module state of the page before any of its objects is constructed
InitPanels ==
    /\ videos = <<>>
    /\ highlight = InitHighlight
    /\ gui = "null"
    /\ devSettings = [toneMapping |-> "Linear"]
    /\ ambientLight = NullLight
    /\ directionalLight = NullLight

InitStandalone ==
    /\ standalone = [variant |-> "none"]
    /\ saFlights = <<>>
    /\ saRaf = <<>>
    /\ saFrame = <<>>

InitWidgets == InitPage /\ InitStandalone /\ InitLights /\ InitPanels /\ chain = <<>>

----------------------------------------------------------------------------
(* Actions *)

FlyToPoint ==
    /\ MayRequest
    /\ \E r \in PointRequests :
          /\ flyToPoint(r.point, r.distance, r.polarAngle, r.azimuthAngle)
          /\ lastEvent' = [type |-> "flyToPoint", request |-> r]
    /\ UNCHANGED <<cameraVars, now, frameQueue, lastWriter, frameRan, finished, viewerVars>>
    /\ UNCHANGED <<widgetVars, loadVars>>

FlyToCamera ==
    /\ MayRequest
    /\ \E cam \in CameraInputs, locked \in BOOLEAN, zoom \in ZoomInputs :
          /\ flyToCamera(cam, locked, zoom)
          /\ lastEvent' = [type |-> "flyToCamera", cam |-> cam.name, locked |-> locked]
    /\ UNCHANGED <<now, frameQueue, lastWriter, frameRan, finished, viewerVars>>
    /\ UNCHANGED <<widgetVars, loadVars>>

\* the browser starts an animation frame: the callbacks registered so far
\* will run, in the order of their registration, with one timestamp
Frame ==
    /\ frameQueue = <<>>
    /\ \E dt \in FrameSteps :
          /\ now + dt <= MaxTime
          /\ now' = now + dt
    /\ frameQueue' = rafQueue
    /\ rafQueue' = <<>>
    /\ frameRan' = {}
    /\ lastEvent' = [type |-> "frame"]
    /\ UNCHANGED <<flights, cameraVars, lastWriter, finished, viewerVars>>
    /\ UNCHANGED <<widgetVars, loadVars>>

\* the next callback of the running frame
Animate ==
    /\ frameQueue # <<>>
    /\ \/ AnimatePoint(Head(frameQueue))
       \/ AnimateCamera(Head(frameQueue))
    /\ lastEvent' = [type |-> "animate", flight |-> Head(frameQueue)]
    /\ UNCHANGED viewerVars
    /\ UNCHANGED <<widgetVars, loadVars>>

Init == InitCamera /\ InitFrames /\ InitViewer /\ InitWidgets

Next == FlyToPoint \/ FlyToCamera \/ Frame \/ Animate

Spec == Init /\ [][Next]_vars

----------------------------------------------------------------------------
(* The viewer: the load callbacks, the timers they start, the pointer      *)
(* handlers and the view buttons, next to the frames of the camera flights *)

\* events are handled between animation frames
MayHandle == frameQueue = <<>> /\ now <= MaxStart

\* a handler that starts a flight
MayFly == MayHandle /\ Len(flights) < MaxViewerFlights

\* a success callback that hides the overlay without adding the model
LoadSuccessNoScene ==
    /\ MayHandle
    /\ loadState = "loading"
    /\ loadState' = "loaded"
    /\ scene' = scene
    /\ tableSelectors' = CollectSelectors(SceneNodes, 1, <<>>)
    /\ glbCameras' = CollectCameras(SceneNodes, 1, <<>>)
    /\ cameraPosition' = FitToModel.position
    /\ controls' = [controls EXCEPT !.target = FitToModel.target]
    /\ timers' = timers \cup {[name |-> "intro", due |-> now + 100],
                              [name |-> "hideLoading", due |-> now + 500]}
    /\ loadingScreen' = [loadingScreen EXCEPT !.opacity = "0"]
    /\ lastEvent' = [type |-> "load"]
    /\ LET processed == processGLBLights(ModelLights)
       IN  /\ lights' = processed.lights
           /\ glbLights' = processed.glbLights
           /\ glbPointLights' = processed.glbPointLights
           /\ glbSpotLights' = processed.glbSpotLights
           /\ glbDirectionalLights' = processed.glbDirectionalLights
    /\ UNCHANGED <<saved, cameraLocked, frameVars, tap, downAt, outline, tablePosition>>
    /\ UNCHANGED <<widgetVars, alerts>>

\* the success callback of loader.load
LoadSuccess ==
    /\ MayHandle
    /\ loadState = "loading"
    /\ loadState' = "loaded"
    /\ scene' = SceneNodes
    /\ tableSelectors' = CollectSelectors(SceneNodes, 1, <<>>)
    /\ glbCameras' = CollectCameras(SceneNodes, 1, <<>>)
    /\ cameraPosition' = FitToModel.position
    /\ controls' = [controls EXCEPT !.target = FitToModel.target]
    /\ timers' = timers \cup {[name |-> "intro", due |-> now + 100],
                              [name |-> "hideLoading", due |-> now + 500]}
    /\ loadingScreen' = [loadingScreen EXCEPT !.opacity = "0"]
    /\ lastEvent' = [type |-> "load"]
    /\ LET processed == processGLBLights(ModelLights)
       IN  /\ lights' = processed.lights
           /\ glbLights' = processed.glbLights
           /\ glbPointLights' = processed.glbPointLights
           /\ glbSpotLights' = processed.glbSpotLights
           /\ glbDirectionalLights' = processed.glbDirectionalLights
    /\ UNCHANGED <<saved, cameraLocked, frameVars, tap, downAt, outline, tablePosition>>
    /\ UNCHANGED <<widgetVars, alerts>>

\* an error callback that leaves the load pending
LoadErrorPending ==
    /\ MayHandle
    /\ loadState = "loading"
    /\ alerts' = alerts + 1
    /\ alerts < 2
    /\ lastEvent' = [type |-> "loadError"]
    /\ UNCHANGED <<cameraVars, frameVars, tap, downAt, outline, tablePosition, loadState,
                   scene, tableSelectors, glbCameras, timers, loadingScreen>>
    /\ UNCHANGED <<widgetVars, lightVars>>

\* the error callback of loader.load
LoadError ==
    /\ MayHandle
    /\ loadState = "loading"
    /\ loadState' = "error"
    /\ alerts' = alerts + 1
    /\ lastEvent' = [type |-> "loadError"]
    /\ UNCHANGED <<cameraVars, frameVars, tap, downAt, outline, tablePosition, scene,
                   tableSelectors, glbCameras, timers, loadingScreen>>
    /\ UNCHANGED <<widgetVars, lightVars>>

\* setTimeout(() => cameraManager.flyToPoint(center, 1), 100)
IntroTimer ==
    /\ frameQueue = <<>>
    /\ Len(flights) < MaxViewerFlights
    /\ \E t \in timers :
          /\ t.name = "intro"
          /\ t.due <= now
          /\ timers' = timers \ {t}
    /\ flyToPoint(ModelCenter, One, DefaultPolarAngle, 0)
    /\ lastEvent' = [type |-> "introTimer"]
    /\ UNCHANGED <<cameraVars, now, frameQueue, lastWriter, frameRan, finished, tap,
                   downAt, outline, tablePosition, loadState, scene, tableSelectors,
                   glbCameras, loadingScreen>>
    /\ UNCHANGED <<widgetVars, loadVars>>

\* setTimeout(() => loadingScreen.style.display = 'none', 500)
HideLoadingTimer ==
    /\ frameQueue = <<>>
    /\ \E t \in timers :
          /\ t.name = "hideLoading"
          /\ t.due <= now
          /\ timers' = timers \ {t}
    /\ loadingScreen' = [loadingScreen EXCEPT !.display = "none"]
    /\ lastEvent' = [type |-> "hideLoadingTimer"]
    /\ UNCHANGED <<cameraVars, frameVars, tap, downAt, outline, tablePosition, loadState,
                   scene, tableSelectors, glbCameras>>
    /\ UNCHANGED <<widgetVars, loadVars>>

\* the pointerdown handler
PointerDown ==
    /\ MayHandle
    /\ \E pos \in DownPositions :
          /\ tap' = [x |-> pos[1] * One, y |-> pos[2] * One]
          /\ downAt' = pos
          /\ lastEvent' = [type |-> "pointerdown", pos |-> pos]
    /\ UNCHANGED <<cameraVars, frameVars, outline, tablePosition, loadState, scene,
                   tableSelectors, glbCameras, timers, loadingScreen>>
    /\ UNCHANGED <<widgetVars, loadVars>>

\* the body of the pointerup handler after the drag test, for a raycast whose
\* first hit has the given table root (0: no hit, or a hit without a root)
Pick(pos, root) ==
    /\ tap' = ToNdc(pos)
    /\ lastEvent' = [type |-> "pointerup", pos |-> pos, picked |-> TRUE, root |-> root]
    /\ IF root # 0
       THEN LET center == scene[root].center
            IN  /\ Len(flights) < MaxViewerFlights
                /\ flyToPoint(center, DefaultDistance, DefaultPolarAngle, 0)
                /\ unlockControls
                /\ tablePosition' = VAdd(center, <<0, PopupLift, 0>>)
                /\ outline' = SelectLoop(selectOutlineObjects(outline, <<>>), center, 1)
                /\ UNCHANGED <<cameraPosition, saved, now, frameQueue, lastWriter,
                               frameRan, finished>>
       ELSE UNCHANGED <<cameraVars, frameVars, outline, tablePosition>>

\* the pointerup handler
PointerUp ==
    /\ MayHandle
    /\ \E pos \in UpPositions :
          IF WasDrag(pos)
          THEN /\ lastEvent' = [type |-> "pointerup", pos |-> pos, picked |-> FALSE,
                                root |-> 0]
               /\ UNCHANGED <<cameraVars, frameVars, tap, outline, tablePosition>>
          ELSE \E root \in {findTableRoot(scene, hit) : hit \in Hits} : Pick(pos, root)
    /\ UNCHANGED <<downAt, loadState, scene, tableSelectors, glbCameras, timers,
                   loadingScreen>>
    /\ UNCHANGED <<widgetVars, loadVars>>

\* the click handler of the top view button
TopViewClick ==
    /\ MayFly
    /\ flyToPoint(<<0, 0, 0>>, (3 * One) \div 2, 0, 0)
    /\ lockControls
    /\ deselectTable
    /\ lastEvent' = [type |-> "topView"]
    /\ UNCHANGED <<cameraPosition, saved, now, frameQueue, lastWriter, frameRan, finished,
                   tap, downAt, loadState, scene, tableSelectors, glbCameras, timers,
                   loadingScreen>>
    /\ UNCHANGED <<widgetVars, loadVars>>

\* the click handler of the free view button
FreeViewClick ==
    /\ MayFly
    /\ unlockControls
    /\ flyToPoint(<<0, One \div 10, 0>>, One \div 2, PI \div 4, PI \div 3)
    /\ deselectTable
    /\ lastEvent' = [type |-> "freeView"]
    /\ UNCHANGED <<cameraPosition, saved, now, frameQueue, lastWriter, frameRan, finished,
                   tap, downAt, loadState, scene, tableSelectors, glbCameras, timers,
                   loadingScreen>>
    /\ UNCHANGED <<widgetVars, loadVars>>

\* the "Fly to" button populateGLBControls adds for a camera of the model
GlbCameraClick ==
    /\ MayFly
    /\ \E i \in 1..Len(glbCameras) :
          LET cam == CHOOSE c \in CameraInputs :
                         c.pos = scene[glbCameras[i]].worldPosition
          IN  /\ flyToCamera(cam, FALSE, One)
              /\ lastEvent' = [type |-> "flyToCamera", cam |-> cam.name, locked |-> FALSE]
    /\ UNCHANGED <<now, frameQueue, lastWriter, frameRan, finished, viewerVars>>
    /\ UNCHANGED <<widgetVars, loadVars>>

ViewerNext ==
    \/ LoadSuccess
    \/ LoadError
    \/ IntroTimer
    \/ HideLoadingTimer
    \/ PointerDown
    \/ PointerUp
    \/ TopViewClick
    \/ FreeViewClick
    \/ GlbCameraClick
    \/ Frame
    \/ Animate

ViewerSpec == Init /\ [][ViewerNext]_vars

\* the handlers alone: what the page does between two animation frames
TapNext ==
    \/ LoadSuccess
    \/ LoadError
    \/ PointerDown
    \/ PointerUp
    \/ TopViewClick
    \/ FreeViewClick
    \/ GlbCameraClick

TapSpec == Init /\ [][TapNext]_vars

----------------------------------------------------------------------------
(* Properties of the camera flights *)

FlightIds == 1..Len(flights)

InQueues(id) ==
    \/ \E i \in 1..Len(rafQueue) : rafQueue[i] = id
    \/ \E i \in 1..Len(frameQueue) : frameQueue[i] = id

\* the pose a flight is asked to end at
EndPose(f) ==
    IF f.kind = "point"
    THEN [position |-> VAdd(SetFromSpherical(f.endSpherical), f.point), target |-> f.point]
    ELSE [position |-> f.targetPos, target |-> f.point]

CurrentPose == [position |-> cameraPosition, target |-> controls.target]

\* flight j was requested while the earlier flight i had not run for its duration
Overlap(i, j) ==
    /\ i < j
    /\ flights[j].startTime < flights[i].startTime + flights[i].duration

AllDone == \A id \in FlightIds : flights[id].done

NewestOf(ids) == CHOOSE id \in ids : \A other \in ids : other <= id

\* a request cancels nothing: every flight that has not had its last tick is
\* scheduled exactly once
NoFlightCancelled ==
    \A id \in FlightIds :
        /\ ~flights[id].done =>
              Cardinality({i \in 1..Len(rafQueue) : rafQueue[i] = id})
              + Cardinality({i \in 1..Len(frameQueue) : frameQueue[i] = id}) = 1
        /\ flights[id].done => ~InQueues(id)

\* at the end of a frame in which several flights ticked, the pose is the one
\* the most recently started of them wrote
NewestWritesLast ==
    (frameQueue = <<>> /\ Cardinality(frameRan) >= 2) =>
        LET id == NewestOf(frameRan)
            f == flights[id]
            e == Eased(Min(((now - f.startTime) * One) \div f.duration, One))
        IN  /\ lastWriter = id
            /\ CurrentPose = IF f.kind = "point" THEN PointPose(f, e) ELSE CameraPose(f, e)

Ticks(id) ==
    /\ frameQueue # <<>>
    /\ Head(frameQueue) = id
    /\ frameQueue' = Tail(frameQueue)

Elapsed(id) == now - flights[id].startTime

EnableFlags(c) == <<c.enableRotate, c.enablePan, c.enableZoom>>

C2_Step ==
    \A id \in FlightIds :
        (Ticks(id) /\ flights[id].kind = "camera") =>
            IF Elapsed(id) >= flights[id].duration
            THEN /\ controls'.target = flights[id].point
                 /\ controls'.enableRotate = ~flights[id].locked
                 /\ controls'.enablePan = ~flights[id].locked
                 /\ controls'.enableZoom = TRUE
                 /\ saved' = [target |-> controls'.target, position |-> cameraPosition']
            ELSE EnableFlags(controls') = EnableFlags(controls)

\* C2: the tick of a flyToCamera flight at which progress reaches 1 sets the
\* orbit target to the look-at point, enableRotate and enablePan to the negation
\* of locked, enableZoom to true and saves the controls state; every earlier
\* tick of the flight leaves the three enable flags as they were.
C2_TerminalTick == [][C2_Step]_vars

\* a locked flyToCamera flight has just had its last tick
C2_Witness ==
    \E id \in FlightIds :
        /\ flights[id].kind = "camera"
        /\ flights[id].locked
        /\ flights[id].done
        /\ lastWriter = id
        /\ ~controls.enableRotate
        /\ ~controls.enablePan
        /\ saved.target = flights[id].point

\* C3: for every start offset and every requested end azimuth, the azimuth
\* delta flyToPoint interpolates with is at most pi in absolute value.
C3_ShortestArc ==
    \A id \in FlightIds :
        flights[id].kind = "point" =>
            Abs(DeltaTheta(flights[id].endSpherical.theta,
                           flights[id].startSpherical.theta)) <= PI

C4_Step ==
    \A id \in FlightIds :
        Ticks(id) =>
            IF Elapsed(id) >= flights[id].duration
            THEN /\ flights'[id].done
                 /\ ~InQueues(id)'
                 /\ CurrentPose' = EndPose(flights[id])
            ELSE /\ ~flights'[id].done
                 /\ \E i \in 1..Len(rafQueue') : rafQueue'[i] = id

\* once the frame whose timestamp reaches a flight's duration has run, the
\* flight has had its last tick
DoneInTime ==
    \A id \in FlightIds :
        (frameQueue = <<>> /\ Elapsed(id) >= flights[id].duration) => flights[id].done

----------------------------------------------------------------------------
(* Properties of the tap handlers *)

PointerUpStep == lastEvent'.type = "pointerup"

\* the pixel distance between two pointer positions is at most the threshold
WithinThreshold(a, b) ==
    ~HypotExceeds((a[1] - b[1]) * One, (a[2] - b[2]) * One, DragThreshold * One)

\* C5: on a pointer-up that follows a pointer-down, a pick is attempted if and
\* only if the pixel distance between the pointer-down position and the
\* pointer-up position is at most 6; a drag starts no flight and changes
\* neither the selection nor the popup anchor.
C5_DragFilter ==
    [][(PointerUpStep /\ downAt # <<>>) =>
          /\ lastEvent'.picked <=> WithinThreshold(lastEvent'.pos, downAt)
          /\ ~lastEvent'.picked =>
                /\ flights' = flights
                /\ rafQueue' = rafQueue
                /\ outline' = outline
                /\ tablePosition' = tablePosition]_vars

\* the tableSelectors groups whose first element lies strictly within the
\* threshold of a point
MatchingGroups(center) ==
    {i \in 1..Len(tableSelectors) :
        DistanceTo(scene[tableSelectors[i][1]].worldPosition, center) < SelectorThreshold}

FirstMatchingGroup(center) ==
    IF MatchingGroups(center) = {} THEN <<>>
    ELSE tableSelectors[CHOOSE i \in MatchingGroups(center) :
                            \A j \in MatchingGroups(center) : i <= j]

\* C7: when a tap resolves a root, the outline selection becomes the first
\* group of tableSelectors, in list order, whose first element is at a
\* distance strictly below 0.05 from the centre of the root's bounding box;
\* later matching groups are ignored, and without a match the selection is
\* empty.
C7_FirstMatch ==
    [][(PointerUpStep /\ lastEvent'.picked /\ lastEvent'.root # 0) =>
          outline'.selection = FirstMatchingGroup(scene[lastEvent'.root].center)]_vars

\* a tap on VIP_A, whose centre two groups match, has selected the first one
C7_Witness ==
    /\ lastEvent.type = "pointerup"
    /\ lastEvent.picked
    /\ lastEvent.root = 2
    /\ Cardinality(MatchingGroups(scene[2].center)) = 2
    /\ outline.selection = tableSelectors[1]
    /\ outline.selection # FirstMatchingGroup(scene[5].center)

C8_Miss ==
    /\ flights' = flights
    /\ rafQueue' = rafQueue
    /\ outline' = outline
    /\ tablePosition' = tablePosition
    /\ EnableFlags(controls') = EnableFlags(controls)
    /\ cameraLocked' = cameraLocked

C8_Resolved(root) ==
    LET center == scene[root].center
        flight == flights'[Len(flights')]
    IN  /\ Len(flights') = Len(flights) + 1
        /\ SubSeq(flights', 1, Len(flights)) = flights
        /\ rafQueue' = Append(rafQueue, Len(flights'))
        /\ flight.kind = "point"
        /\ flight.point = center
        /\ EnableFlags(controls') = <<TRUE, TRUE, TRUE>>
        /\ ~cameraLocked'
        /\ tablePosition' = <<center[1], center[2] + 17, center[3]>>
        /\ \/ outline'.selection = <<>>
           \/ \E i \in 1..Len(tableSelectors) : outline'.selection = tableSelectors[i]

\* C8: a tap that resolves no root starts no flight and leaves the selection,
\* the popup anchor and the lock state as they were; a tap that resolves a
\* root starts exactly one flyToPoint to the centre of the root's bounding
\* box, unlocks the controls, puts the popup anchor 0.017 above that centre
\* and leaves the selection empty or equal to one tableSelectors group; the
\* scene graph and the collected groups are the same afterwards.
C8_TapEffect ==
    [][(PointerUpStep /\ lastEvent'.picked) =>
          /\ IF lastEvent'.root = 0 THEN C8_Miss ELSE C8_Resolved(lastEvent'.root)
          /\ scene' = scene
          /\ tableSelectors' = tableSelectors]_vars

\* a tap has resolved a root after a Top View click had locked the controls
C8_Witness ==
    /\ lastEvent.type = "pointerup"
    /\ lastEvent.picked
    /\ lastEvent.root # 0
    /\ Len(flights) = 2
    /\ flights[1].endSpherical.radius = (3 * One) \div 2
    /\ flights[2].point = scene[lastEvent.root].center
    /\ ~cameraLocked
    /\ outline.selection = <<>>

----------------------------------------------------------------------------
(* findTableRoot on parent chains *)

MaxChain == 3

NameInputs ==
    { <<"V", "I", "P", "_">>,
      <<"V", "I", "P", "_", "A">>,
      <<"V", "I", "P">>,
      <<"x", "V", "I", "P", "_">>,
      <<"v", "i", "p", "_", "a">>,
      <<>>,
      <<"F", "l", "o", "o", "r">> }

\* node i of a chain has node i - 1 as its parent; node 1 has none
ChainOf(nameSeq) ==
    [i \in 1..Len(nameSeq) |->
        [name |-> nameSeq[i], parent |-> i - 1, kind |-> "mesh",
         center |-> <<0, 0, 0>>, worldPosition |-> <<0, 0, 0>>]]

NameSeqs == UNION {[1..n -> NameInputs] : n \in 1..MaxChain}

ChainInit ==
    /\ InitCamera /\ InitFrames /\ InitViewer /\ InitPage /\ InitStandalone /\ InitLights /\ InitPanels
    /\ chain \in {ChainOf(q) : q \in NameSeqs}

\* findTableRoot(obj) for an object of the chain
FindTableRoot ==
    /\ \E obj \in 1..Len(chain) :
          lastEvent' = [type |-> "findTableRoot", obj |-> obj,
                        result |-> findTableRoot(chain, obj)]
    /\ UNCHANGED <<cameraVars, frameVars, viewerVars, widgetVars, loadVars>>

ChainSpec == ChainInit /\ [][FindTableRoot]_vars

\* obj, its parent, the parent of that, ... as a set
RECURSIVE ParentChain(_, _)
ParentChain(nodes, obj) ==
    IF obj = 0 THEN {} ELSE {obj} \cup ParentChain(nodes, nodes[obj].parent)

IsVipName(name) == Len(name) >= 4 /\ <<name[1], name[2], name[3], name[4]>> = VipPrefix

\* C6: findTableRoot(obj) returns the nearest node of the chain obj,
\* obj.parent, ... (obj included) whose name starts with "VIP_", and null
\* exactly when the chain has no such node.
C6_NearestRoot ==
    lastEvent.type = "findTableRoot" =>
        LET named == {n \in ParentChain(chain, lastEvent.obj) : IsVipName(chain[n].name)}
        IN  IF named = {} THEN lastEvent.result = 0
            ELSE /\ lastEvent.result \in named
                 /\ \A n \in named : n \in ParentChain(chain, lastEvent.result)

\* the object itself and an ancestor both carry the prefix, and the object
\* was returned
C6_Witness ==
    /\ lastEvent.type = "findTableRoot"
    /\ lastEvent.obj = 3
    /\ IsVipName(chain[3].name)
    /\ IsVipName(chain[1].name)
    /\ ~IsVipName(chain[2].name)
    /\ lastEvent.result = 3

----------------------------------------------------------------------------
(* The overlays: updatePopup of the viewer, updateCourtLabels of the *)
(* standalone viewer                                                  *)

\* what Vector3.project may return for an anchor: x, y and depth
ProjectedInputs ==
    {<<x, y, z>> : x \in {-One, 0, One \div 2}, y \in {0, One \div 2},
                   z \in {One \div 2, One - 1, One, One + 1, (6 * One) \div 5}}

\* screen position of a projected point as updatePopup computes it
PopupScreen(v) ==
    <<(((v[1] * 5) \div 10 + One \div 2) * InnerWidth) \div One,
      (((v[2] * (-5)) \div 10 + One \div 2) * InnerHeight) \div One>>

\* screen position of a projected point as updateCourtLabels computes it
LabelScreen(v) ==
    <<(((v[1] * 5) \div 10 + One \div 2) * InnerWidth) \div One,
      ((-((v[2] * 5) \div 10) + One \div 2) * InnerHeight) \div One>>

\* updatePopup, once per frame of the viewer's loop
UpdatePopup ==
    /\ \E v \in ProjectedInputs :
          /\ popup' = [display |-> IF v[3] > One THEN "none" ELSE "block",
                       x |-> PopupScreen(v)[1],
                       y |-> PopupScreen(v)[2],
                       tilt |-> ((cameraPosition[2] \div 10) * 45) \div One]
          /\ lastEvent' = [type |-> "updatePopup", depth |-> v[3]]
    /\ UNCHANGED <<cameraVars, frameVars, viewerVars, courtLabels, renderVars, chain, standaloneVars, loadVars, pageVars>>

\* createCourtLabels: the one label of the standalone viewer
CreateCourtLabels ==
    /\ courtLabels = <<>>
    /\ courtLabels' = <<[display |-> "", left |-> 0, top |-> 0]>>
    /\ lastEvent' = [type |-> "createCourtLabels"]
    /\ UNCHANGED <<cameraVars, frameVars, viewerVars, popup, renderVars, chain, standaloneVars, loadVars, pageVars>>

\* the style of one label after updateCourtLabels has projected its anchor
UpdatedLabel(label, v) ==
    IF v[3] < One
    THEN [display |-> "block", left |-> LabelScreen(v)[1], top |-> LabelScreen(v)[2]]
    ELSE [label EXCEPT !.display = "none"]

\* updateCourtLabels, once per frame of the standalone viewer's loop
UpdateCourtLabels ==
    /\ courtLabels # <<>>
    /\ \E v \in ProjectedInputs :
          /\ courtLabels' = [i \in 1..Len(courtLabels) |-> UpdatedLabel(courtLabels[i], v)]
          /\ lastEvent' = [type |-> "updateCourtLabels", depth |-> v[3]]
    /\ UNCHANGED <<cameraVars, frameVars, viewerVars, popup, renderVars, chain, standaloneVars, loadVars, pageVars>>

OverlayNext == UpdatePopup \/ CreateCourtLabels \/ UpdateCourtLabels

OverlaySpec == Init /\ [][OverlayNext]_vars

\* C9: after an update, an overlay is shown if and only if the projected
\* depth of its anchor is strictly below 1, for the table popup and for the
\* labels alike; at a depth of exactly 1 the overlay is hidden.
C9_ShownIffInFront ==
    /\ lastEvent.type = "updatePopup" =>
          (popup.display = "block" <=> lastEvent.depth < One)
    /\ lastEvent.type = "updateCourtLabels" =>
          \A i \in 1..Len(courtLabels) :
              courtLabels[i].display = "block" <=> lastEvent.depth < One

----------------------------------------------------------------------------
(* RenderManager: tone mapping *)

MaxWarnings == 3

\* the own properties of TONE_MAPPING_MODES, in the order of the literal
ToneMappingModes ==
    << <<"Linear", "LINEAR">>,
       <<"Reinhard", "REINHARD">>,
       <<"Reinhard2", "REINHARD2">>,
       <<"Reinhard2 Adaptive", "REINHARD2_ADAPTIVE">>,
       <<"Uncharted2", "UNCHARTED2">>,
       <<"Optimized Cineon", "OPTIMIZED_CINEON">>,
       <<"ACES Filmic", "ACES_FILMIC">>,
       <<"AGX", "AGX">>,
       <<"Neutral", "NEUTRAL">> >>

ToneMappingNames == {ToneMappingModes[i][1] : i \in 1..Len(ToneMappingModes)}

\* property names every object literal inherits from Object.prototype
InheritedNames == {"constructor", "toString", "hasOwnProperty", "valueOf"}

\* TONE_MAPPING_MODES[name]: the own property, else the inherited member,
\* else undefined
ModeLookup(name) ==
    IF name \in ToneMappingNames
    THEN LET i == CHOOSE k \in 1..Len(ToneMappingModes) : ToneMappingModes[k][1] = name
         IN  ToneMappingModes[i][2]
    ELSE IF name \in InheritedNames THEN "Object.prototype." \o name
    ELSE "undefined"

NameRequests == ToneMappingNames \cup {"Bogus", "", "aces filmic", "constructor", "toString"}

\* RenderManager.setToneMappingByName
SetToneMappingByName ==
    /\ \E name \in NameRequests :
          LET mode == ModeLookup(name)
          IN  /\ IF mode # "undefined"
                 THEN /\ toneMappingMode' = mode
                      /\ warnings' = warnings
                 ELSE /\ warnings < MaxWarnings
                      /\ warnings' = warnings + 1
                      /\ toneMappingMode' = toneMappingMode
              /\ lastEvent' = [type |-> "setToneMappingByName", name |-> name]
    /\ UNCHANGED <<cameraVars, frameVars, viewerVars, overlayVars, chain, standaloneVars, loadVars, pageVars>>

RenderSpec == Init /\ [][SetToneMappingByName]_vars

\* C10: setToneMappingByName(name) changes the mode only for the nine names of
\* TONE_MAPPING_MODES; for any other string the mode stays as it was and one
\* warning is emitted.
C10_UnknownRejected ==
    [][(lastEvent'.type = "setToneMappingByName"
            /\ lastEvent'.name \notin ToneMappingNames) =>
          /\ toneMappingMode' = toneMappingMode
          /\ warnings' = warnings + 1]_vars

----------------------------------------------------------------------------
(* The standalone viewer: module-level camera, controls, flyToCamera and    *)
(* unlockCamera, in its two variants: camera buttons by index ("index") and *)
(* camera buttons by name ("name")                                           *)

MaxSaFlights == 2

MaxSaWarnings == 1

\* the time between two animation frames of the standalone viewer
SaFrameSteps == {750}

\* glbCameras after model.traverse, for the models that may be loaded
GlbCameraLists ==
    LET top == [name |-> <<"c", "a", "m", "e", "r", "a", "_", "t", "o", "p">>, pos |-> <<0, 20000, 0>>, dir |-> <<0, -One, 0>>]
        b == [name |-> <<"C", "a", "m", "e", "r", "a", "_", "B">>, pos |-> <<5000, 2000, 5000>>, dir |-> <<0, 0, -One>>]
        b1 == [name |-> <<"c", "a", "m", "e", "r", "a", "_", "b", "1">>, pos |-> <<-5000, 2000, 5000>>, dir |-> <<0, 0, -One>>]
    IN  { <<>>, <<top>>, <<b, top>>, <<top, b, b1>> }

\* devSettings.topViewZoom
TopViewZoom == (3 * One) \div 2

\* the page after initThreeJS; freeView is history: a Free View click has come
\* and no Top View click after it
NewStandalone(variant) ==
    [ variant |-> variant,
      loaded |-> FALSE,
      position |-> <<50 * One, 30 * One, 50 * One>>,
      target |-> <<0, 0, 0>>,
      enableRotate |-> TRUE,
      enablePan |-> TRUE,
      enableZoom |-> TRUE,
      minDistance |-> IF variant = "index" THEN One \div 10 ELSE 5 * One,
      maxDistance |-> IF variant = "index" THEN 2000 * One ELSE 200 * One,
      cameraLocked |-> FALSE,
      glbCameras |-> <<>>,
      startTimer |-> -1,
      warnings |-> 0,
      freeView |-> FALSE ]

\* glbCameras.find(cam => cam.name.toLowerCase() === name.toLowerCase()),
\* as an index into the list (0: undefined)
findCameraByName(cameras, name) ==
    LET found == {i \in 1..Len(cameras) : ToLowerCase(cameras[i].name) = ToLowerCase(name)}
    IN  IF found = {} THEN 0 ELSE CHOOSE i \in found : \A j \in found : i <= j

\* unlockCamera
unlockCamera(s) ==
    [s EXCEPT !.cameraLocked = FALSE, !.enableRotate = TRUE, !.enablePan = TRUE,
              !.enableZoom = TRUE]

\* fitCameraToModel
fitCameraToModel(s) ==
    IF ~s.loaded THEN s
    ELSE [s EXCEPT !.position = FitToModel.position, !.target = FitToModel.target]

\* the closure of animateFly
SaFlight(s, cam, locked) ==
    [ startTime |-> now,
      duration |-> FlyToCameraDuration,
      startPos |-> s.position,
      startTarget |-> s.target,
      targetPos |-> IF s.variant = "name"
                       /\ ToLowerCase(cam.name) = <<"c", "a", "m", "e", "r", "a", "_", "t", "o", "p">>
                       /\ TopViewZoom # One
                    THEN ZoomedTargetPos(cam, TopViewZoom)
                    ELSE cam.pos,
      lookAtPoint |-> VAdd(cam.pos, VScale(cam.dir, 10 * One)),
      locked |-> locked,
      done |-> FALSE ]

\* the module-level flyToCamera(targetCam, locked), up to its
\* requestAnimationFrame
saFlyToCamera(s, cam, locked) ==
    /\ Len(saFlights) < MaxSaFlights
    /\ standalone' = IF s.variant = "name"
                     THEN [s EXCEPT !.cameraLocked = locked, !.minDistance = 0,
                                    !.maxDistance = Infinity]
                     ELSE [s EXCEPT !.cameraLocked = locked]
    /\ saFlights' = Append(saFlights, SaFlight(s, cam, locked))
    /\ saRaf' = Append(saRaf, Len(saFlights) + 1)

SaReady == standalone.variant # "none" /\ saFrame = <<>>

SaOthers == <<cameraVars, rafQueue, frameQueue, flights, lastWriter, frameRan, finished,
              viewerVars, overlayVars, renderVars, chain, loadVars, pageVars>>

\* initThreeJS of one of the two variants
InitThreeJS ==
    /\ standalone.variant = "none"
    /\ \E variant \in {"index", "name"} : standalone' = NewStandalone(variant)
    /\ lastEvent' = [type |-> "initThreeJS"]
    /\ UNCHANGED <<now, saFlights, saRaf, saFrame, SaOthers>>

\* the success callback of loader.load: cameras, camera fit, start view
SaLoadModel ==
    /\ SaReady
    /\ ~standalone.loaded
    /\ \E cameras \in GlbCameraLists :
          LET s == fitCameraToModel([standalone EXCEPT !.loaded = TRUE,
                                                       !.glbCameras = cameras])
              startCamera == findCameraByName(cameras, <<"c", "a", "m", "e", "r", "a", "_", "b">>)
          IN  standalone' = IF s.variant = "name" /\ startCamera # 0
                            THEN [s EXCEPT !.startTimer = now + 100]
                            ELSE s
    /\ lastEvent' = [type |-> "saLoad"]
    /\ UNCHANGED <<now, saFlights, saRaf, saFrame, SaOthers>>

\* setTimeout(() => flyToCamera(startCamera, false), 100)
SaStartTimer ==
    /\ SaReady
    /\ standalone.startTimer >= 0
    /\ standalone.startTimer <= now
    /\ LET s == [standalone EXCEPT !.startTimer = -1]
           startCamera == findCameraByName(s.glbCameras, <<"c", "a", "m", "e", "r", "a", "_", "b">>)
       IN  saFlyToCamera(s, s.glbCameras[startCamera], FALSE)
    /\ lastEvent' = [type |-> "saStartTimer"]
    /\ UNCHANGED <<now, saFrame, SaOthers>>

\* a camera button that unlocks, then looks its camera up
\* (0: the camera does not exist)
UnlockingButton(button, index) ==
    LET s == unlockCamera(standalone)
    IN  /\ IF index # 0
           THEN saFlyToCamera(s, s.glbCameras[index], FALSE)
           ELSE /\ s.warnings < MaxSaWarnings
                /\ standalone' = [s EXCEPT !.warnings = @ + 1]
                /\ UNCHANGED <<saFlights, saRaf>>
        /\ lastEvent' = [type |-> "cameraView", button |-> button, missing |-> index = 0]

\* the top view button
TopViewButton(index) ==
    /\ LET s == [standalone EXCEPT !.freeView = FALSE]
       IN  IF index # 0
           THEN saFlyToCamera(s, s.glbCameras[index], TRUE)
           ELSE /\ s.warnings < MaxSaWarnings
                /\ standalone' = [s EXCEPT !.warnings = @ + 1]
                /\ UNCHANGED <<saFlights, saRaf>>
    /\ lastEvent' = [type |-> "cameraView", button |-> "topView", missing |-> index = 0]

\* vipViewBtn click: glbCameras[1] of the source, the second camera
VipViewClick ==
    /\ SaReady
    /\ standalone.variant = "index"
    /\ UnlockingButton("vipView", IF Len(standalone.glbCameras) > 1 THEN 2 ELSE 0)
    /\ UNCHANGED <<now, saFrame, SaOthers>>

\* topViewBtn click of the variant with buttons by index: glbCameras[0]
TopViewIndexClick ==
    /\ SaReady
    /\ standalone.variant = "index"
    /\ TopViewButton(IF Len(standalone.glbCameras) > 0 THEN 1 ELSE 0)
    /\ UNCHANGED <<now, saFrame, SaOthers>>

\* tableBBtn click
TableBClick ==
    /\ SaReady
    /\ standalone.variant = "name"
    /\ UnlockingButton("tableB", findCameraByName(standalone.glbCameras, <<"c", "a", "m", "e", "r", "a", "_", "b">>))
    /\ UNCHANGED <<now, saFrame, SaOthers>>

\* tableB1Btn click
TableB1Click ==
    /\ SaReady
    /\ standalone.variant = "name"
    /\ UnlockingButton("tableB1", findCameraByName(standalone.glbCameras, <<"c", "a", "m", "e", "r", "a", "_", "b", "1">>))
    /\ UNCHANGED <<now, saFrame, SaOthers>>

\* topViewBtn click of the variant with buttons by name
TopViewNameClick ==
    /\ SaReady
    /\ standalone.variant = "name"
    /\ TopViewButton(findCameraByName(standalone.glbCameras, <<"c", "a", "m", "e", "r", "a", "_", "t", "o", "p">>))
    /\ UNCHANGED <<now, saFrame, SaOthers>>

\* freeViewBtn click
SaFreeViewClick ==
    /\ SaReady
    /\ standalone' = [fitCameraToModel(unlockCamera(standalone)) EXCEPT !.freeView = TRUE]
    /\ lastEvent' = [type |-> "saFreeView"]
    /\ UNCHANGED <<now, saFlights, saRaf, saFrame, SaOthers>>

\* the browser starts an animation frame of the standalone viewer, with
\* callbacks or a timer waiting for it
SaFrame ==
    /\ SaReady
    /\ saRaf # <<>> \/ standalone.startTimer >= 0
    /\ \E dt \in SaFrameSteps :
          /\ now + dt <= MaxTime
          /\ now' = now + dt
    /\ saFrame' = saRaf
    /\ saRaf' = <<>>
    /\ lastEvent' = [type |-> "saFrame"]
    /\ UNCHANGED <<standalone, saFlights, SaOthers>>

\* animateFly: the next callback of the running frame
SaAnimate ==
    /\ saFrame # <<>>
    /\ LET id == Head(saFrame)
           f == saFlights[id]
           progress == Progress(now, f.startTime, f.duration)
           eased == Eased(progress)
           posed == [standalone EXCEPT
                        !.position = LerpVectors(f.startPos, f.targetPos, eased),
                        !.target = LerpVectors(f.startTarget, f.lookAtPoint, eased)]
           limits == IF posed.variant = "name"
                     THEN [posed EXCEPT !.minDistance = One \div 10,
                                        !.maxDistance = 500 * One]
                     ELSE posed
           terminal == IF f.locked
                       THEN [limits EXCEPT !.enableRotate = FALSE, !.enablePan = FALSE,
                                           !.enableZoom = TRUE]
                       ELSE limits
       IN  /\ saFrame' = Tail(saFrame)
           /\ IF progress < One
              THEN /\ saRaf' = Append(saRaf, id)
                   /\ standalone' = posed
                   /\ UNCHANGED saFlights
              ELSE /\ standalone' = terminal
                   /\ saFlights' = [saFlights EXCEPT ![id].done = TRUE]
                   /\ UNCHANGED saRaf
           /\ lastEvent' = [type |-> "saAnimate", flight |-> id]
    /\ UNCHANGED <<now, SaOthers>>

StandaloneSpec ==
    Init /\ [][ \/ InitThreeJS
                 \/ SaLoadModel
                 \/ SaStartTimer
                 \/ VipViewClick
                 \/ TopViewIndexClick
                 \/ TableBClick
                 \/ TableB1Click
                 \/ TopViewNameClick
                 \/ SaFreeViewClick
                 \/ SaFrame
                 \/ SaAnimate ]_vars

\* what a click can be seen to have done on the camera and its controls
SaObservable(s) ==
    <<s.position, s.target, s.enableRotate, s.enablePan, s.enableZoom, s.cameraLocked>>

\* C11: when a camera-view button is clicked and the camera it needs is not
\* among the GLB cameras, a warning is logged and the camera position, the
\* orbit target, the rotate, pan and zoom flags and the lock flag stay as they
\* were, and no flight is started.
C11_MissingCameraNoOp ==
    [][(lastEvent'.type = "cameraView" /\ lastEvent'.missing) =>
          /\ standalone'.warnings = standalone.warnings + 1
          /\ SaObservable(standalone') = SaObservable(standalone)
          /\ saFlights' = saFlights
          /\ saRaf' = saRaf]_vars

----------------------------------------------------------------------------
(* Loading: the two callbacks of loader.load, the timers of the success    *)
(* callback and the frames of the intro flight, with no user input         *)

LoadSpec ==
    Init /\ [][ \/ LoadSuccess
                 \/ LoadError
                 \/ IntroTimer
                 \/ HideLoadingTimer
                 \/ Frame
                 \/ Animate ]_vars

\* nothing of the model has been set up
NothingSetUp ==
    /\ scene = <<>>
    /\ lights = <<>>
    /\ glbLights = <<>>
    /\ glbPointLights = <<>>
    /\ glbSpotLights = <<>>
    /\ glbDirectionalLights = <<>>
    /\ glbCameras = <<>>
    /\ tableSelectors = <<>>

\* C12: when the load fails, the alert is shown exactly once and nothing else
\* follows: no second load, no model in the scene, no lights, cameras or
\* table selectors registered, no intro flight or timer, and the loading
\* overlay keeps the style it had.
C12_FailureOnlyAlerts ==
    /\ alerts <= 1
    /\ loadState = "error" <=> alerts = 1
    /\ alerts = 1 =>
          /\ NothingSetUp
          /\ flights = <<>>
          /\ rafQueue = <<>>
          /\ timers = {}
          /\ loadingScreen = [opacity |-> "", display |-> ""]
          /\ cameraPosition = saved.position

\* the load has failed and more time than any timer needs has passed
C12_Witness == loadState = "error" /\ alerts = 1 /\ now > 600

\* the scene set-up of the success callback has been done
SetUpDone ==
    /\ loadState = "loaded"
    /\ scene = SceneNodes
    /\ glbLights = <<1, 2, 3>>
    /\ glbPointLights = <<1>>
    /\ glbSpotLights = <<2>>
    /\ glbDirectionalLights = <<3>>
    /\ lights = PresetsApplied(lights, glbPointLights, glbSpotLights)
    /\ lights[1].intensity = LIGHT_PRESETS.purple.intensity
    /\ lights[2].intensity = LIGHT_PRESETS.spot.intensity
    /\ glbCameras = CollectCameras(SceneNodes, 1, <<>>)
    /\ tableSelectors = CollectSelectors(SceneNodes, 1, <<>>)

\* C13: the loading overlay is hidden (opacity 0, then display none by the
\* timer set 500 ms ahead) only by the success callback and only with the
\* scene set-up done; before the load has succeeded its style is untouched.
C13_HiddenOnlyAfterSetUp ==
    /\ loadingScreen.opacity \in {"", "0"}
    /\ loadingScreen.display \in {"", "none"}
    /\ loadingScreen # [opacity |-> "", display |-> ""] => SetUpDone
    /\ loadState = "loaded" => loadingScreen.opacity = "0"
    /\ loadingScreen.display = "none" => loadingScreen.opacity = "0" /\ now >= 500
    /\ \A t \in timers : t.name = "hideLoading" => loadingScreen.display = ""

\* the overlay has been taken out of the layout
C13_Witness == loadingScreen = [opacity |-> "0", display |-> "none"] /\ SetUpDone

----------------------------------------------------------------------------
(* LightManager on its own: processGLBLights on a model, applyLightPresets *)
(* again, and the setters the light controls of the page call              *)

\* LightManager.updatePointLight
updatePointLight(light, settings) ==
    [light EXCEPT !.intensity = IF "intensity" \in DOMAIN settings THEN settings.intensity ELSE @,
                  !.color = IF "color" \in DOMAIN settings THEN settings.color ELSE @,
                  !.distance = IF "distance" \in DOMAIN settings THEN settings.distance ELSE @,
                  !.decay = IF "decay" \in DOMAIN settings THEN settings.decay ELSE @,
                  !.visible = IF "visible" \in DOMAIN settings THEN settings.visible ELSE @]

\* LightManager.updateSpotLight
updateSpotLight(light, settings) ==
    [updatePointLight(light, settings) EXCEPT
        !.angle = IF "angle" \in DOMAIN settings THEN DegToRad(settings.angle) ELSE @,
        !.penumbra = IF "penumbra" \in DOMAIN settings THEN settings.penumbra ELSE @]

\* lightManager.processGLBLights(model), on a model just loaded or on the
\* model processed before
ProcessGLBLights ==
    /\ \E model \in LightModels \cup {lights} :
          LET processed == processGLBLights(model)
          IN  /\ lights' = processed.lights
              /\ glbLights' = processed.glbLights
              /\ glbPointLights' = processed.glbPointLights
              /\ glbSpotLights' = processed.glbSpotLights
              /\ glbDirectionalLights' = processed.glbDirectionalLights
              /\ lastEvent' = [type |-> "processGLBLights",
                               again |-> glbLights # <<>> /\ model = lights,
                               applied |-> PresetNames(model, processed.glbPointLights,
                                                       processed.glbSpotLights)]
    /\ UNCHANGED <<cameraVars, frameVars, viewerVars, widgetVars, alerts>>

\* lightManager.applyLightPresets()
ApplyLightPresets ==
    /\ lights' = PresetsApplied(lights, glbPointLights, glbSpotLights)
    /\ lastEvent' = [type |-> "applyLightPresets",
                     applied |-> PresetNames(lights, glbPointLights, glbSpotLights)]
    /\ UNCHANGED <<glbLights, glbPointLights, glbSpotLights, glbDirectionalLights>>
    /\ UNCHANGED <<cameraVars, frameVars, viewerVars, widgetVars, alerts>>

\* lightManager.updatePointLight(light, settings) on a light of glbPointLights
UpdatePointLight ==
    /\ \E k \in 1..Len(glbPointLights),
          settings \in { [intensity |-> 0, visible |-> FALSE],
                        [distance |-> 5 * One, decay |-> One],
                        [color |-> "#ff0000"] } :
          /\ lights' = [lights EXCEPT ![glbPointLights[k]] = updatePointLight(@, settings)]
          /\ lastEvent' = [type |-> "updatePointLight", light |-> glbPointLights[k],
                            settings |-> settings]
    /\ UNCHANGED <<glbLights, glbPointLights, glbSpotLights, glbDirectionalLights>>
    /\ UNCHANGED <<cameraVars, frameVars, viewerVars, widgetVars, alerts>>

\* lightManager.updateSpotLight(light, settings) on a light of glbSpotLights
UpdateSpotLight ==
    /\ \E k \in 1..Len(glbSpotLights), settings \in { [angle |-> 30, penumbra |-> 0] } :
          /\ lights' = [lights EXCEPT ![glbSpotLights[k]] = updateSpotLight(@, settings)]
          /\ lastEvent' = [type |-> "updateSpotLight", light |-> glbSpotLights[k],
                            settings |-> settings]
    /\ UNCHANGED <<glbLights, glbPointLights, glbSpotLights, glbDirectionalLights>>
    /\ UNCHANGED <<cameraVars, frameVars, viewerVars, widgetVars, alerts>>

\* lightManager.setPunctualLightsVisible(visible)
SetPunctualLightsVisible ==
    /\ \E visible \in BOOLEAN :
          lights' = [i \in 1..Len(lights) |->
                        IF InSeq(glbLights, i) THEN [lights[i] EXCEPT !.visible = visible]
                        ELSE lights[i]]
    /\ lastEvent' = [type |-> "setPunctualLightsVisible"]
    /\ UNCHANGED <<glbLights, glbPointLights, glbSpotLights, glbDirectionalLights>>
    /\ UNCHANGED <<cameraVars, frameVars, viewerVars, widgetVars, alerts>>

LightSpec ==
    Init /\ [][ \/ ProcessGLBLights
                 \/ ApplyLightPresets
                 \/ UpdatePointLight
                 \/ UpdateSpotLight
                 \/ SetPunctualLightsVisible ]_vars

\* the calls that end with the presets applied
PresetCalls == {"processGLBLights", "applyLightPresets"}

\* the indices of the point lights whose lower-cased name holds "purple"
PurplePointLights(objects, pointLights) ==
    {i \in 1..Len(objects) :
        InSeq(pointLights, i) /\ Includes(ToLowerCase(objects[i].name), Keyword.purple)}

HasPurplePreset(light) ==
    /\ light.intensity = 39 * One
    /\ light.color = "#4700ff"
    /\ light.distance = 100 * One
    /\ light.decay = 0
    /\ light.visible

\* C14: right after processGLBLights and after every further applyLightPresets
\* call, every point light whose lower-cased name contains "purple" has
\* intensity 39, colour #4700ff, distance 100, decay 0 and is visible, and an
\* applyLightPresets call that follows such a call leaves these lights as they are.
C14_PurplePreset ==
    [][lastEvent'.type \in PresetCalls =>
          /\ \A i \in PurplePointLights(lights', glbPointLights') : HasPurplePreset(lights'[i])
          /\ (lastEvent.type \in PresetCalls /\ lastEvent'.type = "applyLightPresets") =>
                \A i \in PurplePointLights(lights, glbPointLights) : lights'[i] = lights[i]]_vars

\* the presets have just been applied again to a model with the light Purple_01
C14_Witness ==
    /\ lastEvent.type = "applyLightPresets"
    /\ \E i \in PurplePointLights(lights, glbPointLights) :
          /\ lights[i].name = <<"P", "u", "r", "p", "l", "e", "_", "0", "1">>
          /\ HasPurplePreset(lights[i])

\* the values of the pink preset
HasPinkPreset(light) ==
    /\ light.intensity = 7 * One
    /\ light.color = "#d400ff"
    /\ light.distance = 0
    /\ light.decay = 0
    /\ light.visible

\* the values of the spot preset
HasSpotPreset(light) ==
    /\ light.intensity = 24 * One
    /\ light.color = "#ffc4af"
    /\ light.distance = 0
    /\ light.angle = DegToRad(10)
    /\ light.penumbra = One
    /\ light.decay = (14 * One) \div 10
    /\ light.visible

\* what one applyLightPresets call does to the lights, but for the number of
\* presets per light
PresetMatching(objects, pointLights, spotLights, applied) ==
    \A i \in 1..Len(objects) :
       LET name == objects[i].name
       IN  /\ (InSeq(pointLights, i) /\ name \in {<<"P", "u", "r", "p", "l", "e", "_", "0", "1">>, <<"p", "i", "n", "k", "_", "P", "U", "R", "P", "L", "E">>}) =>
                 applied[i] = <<"purple">> /\ HasPurplePreset(objects[i])
           /\ (InSeq(pointLights, i) /\ name = <<"P", "I", "N", "K">>) =>
                 applied[i] = <<"pink">> /\ HasPinkPreset(objects[i])
           /\ (InSeq(spotLights, i) /\ name = <<"S", "p", "o", "t", "_", "1">>) =>
                 applied[i] = <<"spot">> /\ HasSpotPreset(objects[i])

C16_PresetWhateverKind ==
    [][lastEvent'.type = "processGLBLights" =>
          \A k \in 1..Len(glbLights') :
             LET light == lights'[glbLights'[k]]
                 name == ToLowerCase(light.name)
             IN  IF Includes(name, Keyword.purple) THEN HasPurplePreset(light)
                 ELSE IF Includes(name, Keyword.pink) THEN HasPinkPreset(light)
                 ELSE IF Includes(name, Keyword.spot)
                      THEN light.intensity = 24 * One /\ light.color = "#ffc4af"
                      ELSE TRUE]_vars

\* the number of places of a sequence that hold x
Occurrences(q, x) == Cardinality({k \in 1..Len(q) : q[k] = x})

\* C17: after every processGLBLights call, repeated ones included, every light
\* of the model is exactly once in glbLights and in at most one of the three
\* typed buckets, the one of its capability flag; the typed buckets are
\* pairwise disjoint, hold only lights of glbLights and hold nothing twice.
C17_Buckets ==
    \A i \in 1..Len(lights) :
       LET o == lights[i]
           inPoint == Occurrences(glbPointLights, i)
           inSpot == Occurrences(glbSpotLights, i)
           inDirectional == Occurrences(glbDirectionalLights, i)
       IN  /\ Occurrences(glbLights, i) = IF isLight(o) THEN 1 ELSE 0
           /\ inPoint = IF o.type = "point" THEN 1 ELSE 0
           /\ inSpot = IF o.type = "spot" THEN 1 ELSE 0
           /\ inDirectional = IF o.type = "directional" THEN 1 ELSE 0
           /\ inPoint + inSpot + inDirectional <= Occurrences(glbLights, i)
           /\ \A q \in {glbLights, glbPointLights, glbSpotLights, glbDirectionalLights} :
                 \A k \in 1..Len(q) : q[k] \in 1..Len(lights)

\* processGLBLights has run again on a model with a light of no typed bucket
\* and an object that is no light
C17_Witness ==
    /\ lastEvent.type = "processGLBLights"
    /\ lastEvent.again
    /\ Len(lights) = 4
    /\ glbLights = <<1, 2, 3>>
    /\ glbPointLights = <<1, 2>>

----------------------------------------------------------------------------
(* The easing of the animate callbacks, on every progress value *)

\* const eased = t < 0.5 ? ... : ..., for a progress t between 0 and 1
Ease ==
    /\ \E t \in 0..One : lastEvent' = [type |-> "ease", t |-> t, eased |-> Eased(t)]
    /\ UNCHANGED <<cameraVars, frameVars, viewerVars, widgetVars, loadVars>>

EaseSpec == Init /\ [][Ease]_vars

\* C18: the easing gives 0 at progress 0, 0.5 at progress 0.5 and 1 at
\* progress 1, and its two branches have the same value, 0.5, at progress 0.5.
C18_EasingPoints ==
    /\ EaseIn(One \div 2) = EaseOut(One \div 2)
    /\ lastEvent.type = "ease" =>
          /\ lastEvent.t = 0 => lastEvent.eased = 0
          /\ lastEvent.t = One \div 2 =>
                lastEvent.eased = One \div 2 /\ EaseIn(lastEvent.t) = lastEvent.eased
          /\ lastEvent.t = One => lastEvent.eased = One

\* the easing has been taken at the end of a flight
C18_Witness == lastEvent.type = "ease" /\ lastEvent.t = One /\ lastEvent.eased = One

----------------------------------------------------------------------------
(* Frame-rate independence of a flight *)

\* the pose of a flight at an elapsed time, from what the flight captured
\* when it was requested
PoseAfter(f, elapsed) ==
    LET clamped == Min(elapsed, f.duration)
        e == Eased((clamped * One) \div f.duration)
    IN  IF f.kind = "point" THEN PointPose(f, e) ELSE CameraPose(f, e)

----------------------------------------------------------------------------
(* configureShadows on lights of every kind, with shadows as created and   *)
(* as earlier settings or the renderer may have left them                  *)

\* light.shadow of a light of a kind, over a perspective camera (point, spot)
\* or an orthographic one (directional)
Shadows(type) ==
    LET perspective == [near : {Fine \div 2, Fine}, far : {500 * Fine}, fov : {20, 50, 90}]
        orthographic ==
            { [near |-> near, far |-> 500 * Fine, left |-> -side, right |-> side,
               top |-> side, bottom |-> -side] :
                 near \in {Fine \div 2, Fine}, side \in {5 * Fine, 20 * Fine} }
    IN  IF type = "hemisphere" THEN {[exists |-> FALSE]}
        ELSE { [exists |-> TRUE, mapSize |-> [width |-> size, height |-> size],
                bias |-> bias, normalBias |-> 0, radius |-> radius, camera |-> cam] :
                  size \in {512, 1024}, bias \in {0, -5}, radius \in {Fine, 3 * Fine},
                  cam \in IF type = "directional" THEN orthographic ELSE perspective }

\* the lights configureShadows may be called on
ShadowLights ==
    UNION { { [GltfObject(<<"L">>, type) EXCEPT !.shadow = shadow] : shadow \in Shadows(type) } :
              type \in {"point", "spot", "directional", "hemisphere"} }

\* this.configureShadows(light, type), called with the kind of the light
ConfigureShadows ==
    /\ \E light \in ShadowLights :
          lastEvent' = [type |-> "configureShadows", light |-> light,
                        after |-> configureShadows(light, IF light.type = "hemisphere"
                                                          THEN "point" ELSE light.type)]
    /\ UNCHANGED <<cameraVars, frameVars, viewerVars, widgetVars, loadVars>>

ShadowSpec == Init /\ [][ConfigureShadows]_vars

\* C20: configureShadows sets map size 2048 x 2048, bias -0.0001, normal bias
\* 0.02 and radius 2 for every kind; for a directional light the shadow camera
\* gets left/right/top/bottom -50/50/50/-50, near 0.5 and far 500; for a point
\* or spot light it gets near 0.1 and far 100 and no other field of it is
\* written; a light without a shadow is left as it is.
C20_ShadowsByKind ==
    lastEvent.type = "configureShadows" =>
       LET before == lastEvent.light
           after == lastEvent.after
       IN  /\ [after EXCEPT !.shadow = before.shadow] = before
           /\ ~before.shadow.exists => after = before
           /\ before.shadow.exists =>
                 /\ after.shadow.mapSize = [width |-> 2048, height |-> 2048]
                 /\ after.shadow.bias = -1
                 /\ after.shadow.normalBias = 200
                 /\ after.shadow.radius = 2 * Fine
                 /\ before.type = "directional" =>
                       after.shadow.camera =
                          [near |-> Fine \div 2, far |-> 500 * Fine, left |-> -50 * Fine,
                           right |-> 50 * Fine, top |-> 50 * Fine, bottom |-> -50 * Fine]
                 /\ before.type \in {"point", "spot"} =>
                       /\ after.shadow.camera.near = Fine \div 10
                       /\ after.shadow.camera.far = 100 * Fine
                       /\ after.shadow.camera.fov = before.shadow.camera.fov

----------------------------------------------------------------------------
(* The orbit distance limits during camera flights *)

\* the flyToCamera flights that have not had their last tick
CameraFlightsInProgress == {id \in FlightIds : flights[id].kind = "camera" /\ ~flights[id].done}

\* C26: while a flyToCamera flight is in progress, overlapping ones included,
\* the limits are minDistance 0 and maxDistance Infinity; once flyToCamera
\* flights have run and none is in progress, they are 0.1 and 500.
C26_LimitsWhileFlying ==
    /\ CameraFlightsInProgress # {} =>
          controls.minDistance = 0 /\ controls.maxDistance = Infinity
    /\ (CameraFlightsInProgress = {} /\ \E id \in FlightIds : flights[id].kind = "camera") =>
          controls.minDistance = One \div 10 /\ controls.maxDistance = 500 * One

----------------------------------------------------------------------------
(* Free View against a locked flight in the standalone viewer *)

\* C22: in the standalone viewer, after a Free View click with no Top View
\* click after it, rotating and panning are enabled, also when a locked Top
\* View flight started before the click has its last tick after it.
C22_FreeViewStaysFree ==
    (standalone.variant # "none" /\ standalone.freeView) =>
       standalone.enableRotate /\ standalone.enablePan

----------------------------------------------------------------------------
(* The reference point of the drag filter *)

\* C25: at every pointer-up that comes after a pointer-down, whatever pointer
\* events lie between the two, the vector the drag test reads holds the pixel
\* coordinates of the last pointer-down, never the normalized device
\* coordinates an earlier pointer-up wrote.
C25_ReferenceIsPointerDown ==
    [][(PointerUpStep /\ downAt # <<>>) =>
          tap = [x |-> downAt[1] * One, y |-> downAt[2] * One]]_vars


(***************************************************************************)
(* The control switches of CameraManager, called directly                  *)
(***************************************************************************)

ApiOthers == <<now, rafQueue, frameQueue, flights, lastWriter, frameRan, finished, saved>>

LockControls ==
    /\ MayRequest
    /\ lockControls
    /\ lastEvent' = [type |-> "lockControls"]
    /\ UNCHANGED <<ApiOthers, cameraPosition, viewerVars, widgetVars, loadVars>>

UnlockControls ==
    /\ MayRequest
    /\ unlockControls
    /\ lastEvent' = [type |-> "unlockControls"]
    /\ UNCHANGED <<ApiOthers, cameraPosition, viewerVars, widgetVars, loadVars>>

\* setControlsEnabled(rotate, pan, zoom): the three switches, not the flag
SetControlsEnabled ==
    /\ MayRequest
    /\ \E rotate \in BOOLEAN, pan \in BOOLEAN, zoom \in BOOLEAN :
          /\ controls' = [controls EXCEPT !.enableRotate = rotate,
                                          !.enablePan = pan,
                                          !.enableZoom = zoom]
          /\ lastEvent' = [type |-> "setControlsEnabled", rotate |-> rotate, pan |-> pan]
    /\ UNCHANGED <<ApiOthers, cameraPosition, cameraLocked, viewerVars, widgetVars, loadVars>>

ControlsSpec ==
    Init /\ [][FlyToCamera \/ LockControls \/ UnlockControls \/ SetControlsEnabled
                 \/ Frame \/ Animate]_vars

\* C24: in every reachable state of CameraManager, whatever calls of
\* flyToCamera, flight ticks, lockControls, unlockControls and
\* setControlsEnabled came before, cameraLocked is true exactly when both
\* enableRotate and enablePan are false.
C24_LockedIffNoRotatePan ==
    cameraLocked <=> (~controls.enableRotate /\ ~controls.enablePan)

\* C23: in the viewer, after a Top View click (flyToPoint, then lockControls)
\* rotate and pan stay disabled until the next Free View click or the next
\* tap that selects a table, also when the flight of a "Fly to" button
\* (flyToCamera, locked = false) has its terminal tick after the click.
\* cameraLocked is true in the viewer exactly from a Top View click to the
\* next handler that unlocks or starts a flyToCamera flight.
C23_TopViewStaysLocked ==
    cameraLocked => ~controls.enableRotate /\ ~controls.enablePan

(***************************************************************************)
(* The outline switch of the developer panel                               *)
(***************************************************************************)

\* RenderManager.setOutlineEnabled
setOutlineEnabled(o, enabled) == [o EXCEPT !.opacity = IF enabled THEN One ELSE 0]

OutlineOthers ==
    <<cameraVars, frameVars, tap, downAt, tablePosition, loadState, scene, tableSelectors,
      glbCameras, timers, loadingScreen, widgetVars, loadVars>>

\* the "enabled" checkbox of the Outline Effect folder
SetOutlineEnabled ==
    /\ MayHandle
    /\ \E enabled \in BOOLEAN :
          /\ outline' = setOutlineEnabled(outline, enabled)
          /\ lastEvent' = [type |-> "setOutlineEnabled", enabled |-> enabled]
    /\ UNCHANGED OutlineOthers

OutlineSpec == Init /\ [][TapNext \/ SetOutlineEnabled]_vars

\* C27: after setOutlineEnabled(false) the outline's blend opacity stays 0
\* until setOutlineEnabled(true), whatever taps, selections, deselections,
\* Top View and Free View clicks happen: no step other than
\* setOutlineEnabled changes an opacity of 0.
C27_DisabledStaysDisabled ==
    [][(outline.opacity = 0 /\ lastEvent'.type # "setOutlineEnabled") =>
          outline'.opacity = 0]_vars

(***************************************************************************)
(* VideoScreen                                                             *)
(***************************************************************************)

MaxScreens == 2

VideoOthers ==
    <<cameraVars, frameVars, viewerVars, overlayVars, renderVars, chain, standaloneVars,
      loadVars, highlight, gui, devSettings, ambientLight, directionalLight>>

\* start: this.video.play(); plays counts the calls of play()
start(v) == [v EXCEPT !.plays = v.plays + 1, !.paused = FALSE]

\* new VideoScreen(mesh, src, {autoplay, delay}): timer is the pending
\* setTimeout(start, delay), listener the registered one-shot pointerdown
\* listener of the window
NewVideoScreen ==
    /\ Len(videos) < MaxScreens
    /\ \E autoplay \in BOOLEAN, delay \in {0, 1000} :
          LET v == [paused |-> TRUE, plays |-> 0, disposed |-> FALSE,
                    timer |-> autoplay /\ delay > 0, listener |-> autoplay]
          IN  /\ videos' = Append(videos, IF autoplay /\ delay = 0 THEN start(v) ELSE v)
              /\ lastEvent' = [type |-> "newVideoScreen", autoplay |-> autoplay,
                                delay |-> delay]
    /\ UNCHANGED VideoOthers

\* the delayed start of one screen
VideoTimer ==
    /\ \E i \in 1..Len(videos) :
          /\ videos[i].timer
          /\ videos' = [videos EXCEPT ![i] = [start(videos[i]) EXCEPT !.timer = FALSE]]
          /\ lastEvent' = [type |-> "videoTimer", screen |-> i]
    /\ UNCHANGED VideoOthers

\* a pointerdown on the window: every listener still registered runs once
VideoPointerDown ==
    /\ \E i \in 1..Len(videos) : videos[i].listener
    /\ videos' = [i \in 1..Len(videos) |->
                     IF videos[i].listener
                     THEN [start(videos[i]) EXCEPT !.listener = FALSE]
                     ELSE videos[i]]
    /\ lastEvent' = [type |-> "videoPointerDown"]
    /\ UNCHANGED VideoOthers

\* VideoScreen.dispose
Dispose ==
    /\ \E i \in 1..Len(videos) :
          /\ ~videos[i].disposed
          /\ videos' = [videos EXCEPT ![i].paused = TRUE, ![i].disposed = TRUE]
          /\ lastEvent' = [type |-> "dispose", screen |-> i]
    /\ UNCHANGED VideoOthers

VideoSpec == Init /\ [][NewVideoScreen \/ VideoTimer \/ VideoPointerDown \/ Dispose]_vars

\* C28: after dispose() of a VideoScreen its video's play() is never called
\* again, neither by the delayed autoplay timer nor by the one-shot
\* pointerdown fallback.
C28_NoPlayAfterDispose ==
    [][\A i \in 1..Len(videos) :
          videos[i].disposed => videos'[i].plays = videos[i].plays]_vars

(***************************************************************************)
(* The mesh browser of the standalone viewer: highlightMesh                *)
(***************************************************************************)

MaxHighlights == 3

\* mesh.getWorldPosition of the meshes of the browser
MeshWorldPosition(mesh) == <<mesh * One, 0, One>>

\* mutant: the mesh highlighted before keeps the highlight material
highlightMeshNoRestore(h, mesh) ==
    [ material |-> [h.material EXCEPT ![mesh] = -(h.made + 1)],
      highlightedMesh |-> mesh,
      originalMaterial |-> h.material[mesh],
      timers |-> Append(h.timers, mesh),
      made |-> h.made + 1 ]

\* highlightMesh(mesh) up to focusOnObject: a material below 0 is one of the
\* MeshBasicMaterial objects the function creates, one per call
highlightMesh(h, mesh) ==
    LET restored == IF h.highlightedMesh # 0 /\ h.originalMaterial # 0
                    THEN [h.material EXCEPT ![h.highlightedMesh] = h.originalMaterial]
                    ELSE h.material
    IN  [ material |-> [restored EXCEPT ![mesh] = -(h.made + 1)],
          highlightedMesh |-> mesh,
          originalMaterial |-> restored[mesh],
          timers |-> Append(h.timers, mesh),
          made |-> h.made + 1 ]

HighlightOthers ==
    <<cameraVars, frameVars, viewerVars, overlayVars, renderVars, chain, saFlights, saRaf,
      saFrame, loadVars, videos, gui, devSettings, ambientLight, directionalLight>>

\* a click on an entry of the mesh list: highlightMesh, with focusOnObject
HighlightMesh ==
    /\ standalone.variant # "none"
    /\ highlight.made < MaxHighlights
    /\ \E mesh \in Meshes :
          /\ highlight' = highlightMesh(highlight, mesh)
          /\ standalone' = [standalone EXCEPT !.target = MeshWorldPosition(mesh)]
          /\ lastEvent' = [type |-> "highlightMesh", mesh |-> mesh]
    /\ UNCHANGED HighlightOthers

\* the oldest pending 3000 ms callback of highlightMesh
HighlightTimer ==
    /\ highlight.timers # <<>>
    /\ LET mesh == Head(highlight.timers)
       IN  highlight' =
              IF highlight.highlightedMesh = mesh /\ highlight.originalMaterial # 0
              THEN [highlight EXCEPT !.material[mesh] = highlight.originalMaterial,
                                     !.highlightedMesh = 0,
                                     !.originalMaterial = 0,
                                     !.timers = Tail(highlight.timers)]
              ELSE [highlight EXCEPT !.timers = Tail(highlight.timers)]
    /\ lastEvent' = [type |-> "highlightTimer"]
    /\ UNCHANGED <<HighlightOthers, standalone>>

HighlightSpec == Init /\ [][InitThreeJS \/ HighlightMesh \/ HighlightTimer]_vars

Highlighted == {m \in Meshes : highlight.material[m] < 0}

\* C29: however highlightMesh calls and their 3000 ms timers interleave, at
\* most one mesh carries a highlight material, the recorded original
\* material is never a highlight material, and once every timer has fired
\* every mesh has its original material again and highlightedMesh and
\* originalMaterial are null.
C29_OneHighlight ==
    /\ Cardinality(Highlighted) <= 1
    /\ highlight.originalMaterial >= 0
    /\ highlight.timers = <<>> =>
          /\ \A m \in Meshes : highlight.material[m] = m
          /\ highlight.highlightedMesh = 0
          /\ highlight.originalMaterial = 0

\* two meshes were clicked before the first timer fired, and every timer has
\* fired since
C29_Witness ==
    /\ highlight.made = MaxHighlights
    /\ highlight.timers = <<>>
    /\ lastEvent.type = "highlightTimer"

(***************************************************************************)
(* The tone mapping list of the developer panel                            *)
(***************************************************************************)

\* RenderManager.getToneMappingName: the name of the first entry of
\* TONE_MAPPING_MODES whose mode is the current one
getToneMappingName(current) ==
    LET found == {i \in 1..Len(ToneMappingModes) : ToneMappingModes[i][2] = current}
    IN  IF found = {} THEN "Unknown"
        ELSE ToneMappingModes[CHOOSE i \in found : \A j \in found : i <= j][1]

PanelOthers ==
    <<cameraVars, frameVars, viewerVars, overlayVars, chain, standaloneVars, loadVars,
      videos, highlight, ambientLight, directionalLight>>

\* mutant: the list keeps the value devSettings was declared with
InitDevGUIStale ==
    /\ gui = "null"
    /\ gui' = "GUI"
    /\ devSettings' = devSettings
    /\ lastEvent' = [type |-> "initDevGUI"]
    /\ UNCHANGED <<PanelOthers, renderVars>>

\* initDevGUI, the Renderer folder
InitDevGUI ==
    /\ gui = "null"
    /\ gui' = "GUI"
    /\ devSettings' = [devSettings EXCEPT !.toneMapping = getToneMappingName(toneMappingMode)]
    /\ lastEvent' = [type |-> "initDevGUI"]
    /\ UNCHANGED <<PanelOthers, renderVars>>

\* a choice in the Tone Mapping list: dat.GUI stores the value in
\* devSettings, then onChange calls setToneMappingByName
ToneMappingChange ==
    /\ gui = "GUI"
    /\ \E v \in ToneMappingNames :
          LET mode == ModeLookup(v)
          IN  /\ devSettings' = [devSettings EXCEPT !.toneMapping = v]
              /\ IF mode # "undefined"
                 THEN /\ toneMappingMode' = mode
                      /\ warnings' = warnings
                 ELSE /\ warnings < MaxWarnings
                      /\ warnings' = warnings + 1
                      /\ toneMappingMode' = toneMappingMode
              /\ lastEvent' = [type |-> "toneMappingChange", name |-> v]
    /\ UNCHANGED <<PanelOthers, gui>>

PanelSpec == Init /\ [][InitDevGUI \/ ToneMappingChange \/ SetToneMappingByName]_vars

\* C30: for each of the nine names n of TONE_MAPPING_MODES,
\* setToneMappingByName(n) makes getToneMappingName() return n;
\* getToneMappingName() returns "Unknown" only when the mode is no value of
\* TONE_MAPPING_MODES; after initDevGUI and after every change in the panel
\* devSettings.toneMapping equals getToneMappingName().
C30_NamesRoundTrip ==
    [][/\ (lastEvent'.type = "setToneMappingByName" /\ lastEvent'.name \in ToneMappingNames) =>
             getToneMappingName(toneMappingMode') = lastEvent'.name
       /\ getToneMappingName(toneMappingMode') = "Unknown" =>
             \A i \in 1..Len(ToneMappingModes) : ToneMappingModes[i][2] # toneMappingMode'
       /\ lastEvent'.type \in {"initDevGUI", "toneMappingChange"} =>
             devSettings'.toneMapping = getToneMappingName(toneMappingMode')]_vars

\* the panel was built and "Neutral" has been chosen in its list
C30_Witness ==
    /\ gui = "GUI"
    /\ lastEvent.type = "toneMappingChange"
    /\ devSettings.toneMapping = "Neutral"
    /\ toneMappingMode = "NEUTRAL"

(***************************************************************************)
(* The parameter setters of the LightManager and of the outline            *)
(***************************************************************************)

\* a colour argument that was left out is "undefined"; the empty string is
\* the other falsy value of the parameter
ColorGiven(color) == color \notin {"undefined", ""}

\* mutant: without a colour the light becomes white
updateAmbientLightWhite(light, intensity, color) ==
    IF light = NullLight THEN light
    ELSE [light EXCEPT !.intensity = intensity,
                       !.color = IF ColorGiven(color) THEN color ELSE "#ffffff"]

\* LightManager.updateAmbientLight, on this.ambientLight
updateAmbientLight(light, intensity, color) ==
    IF light = NullLight THEN light
    ELSE [light EXCEPT !.intensity = intensity,
                       !.color = IF ColorGiven(color) THEN color ELSE @]

\* LightManager.updateDirectionalLight, on this.directionalLight
updateDirectionalLight(light, intensity, color) ==
    IF light = NullLight THEN light
    ELSE [light EXCEPT !.intensity = intensity,
                       !.color = IF ColorGiven(color) THEN color ELSE @]

SetterOthers ==
    <<cameraVars, frameVars, tap, downAt, tablePosition, loadState, scene, tableSelectors,
      glbCameras, timers, loadingScreen, overlayVars, renderVars, chain, standaloneVars,
      glbLights, glbPointLights, glbSpotLights, glbDirectionalLights, alerts, videos,
      highlight, gui, devSettings>>

\* LightManager.setupBaseLighting with its default arguments
SetupBaseLighting ==
    /\ ambientLight = NullLight
    /\ ambientLight' = [intensity |-> 300, color |-> "#ffffff"]
    /\ directionalLight' =
          configureShadows([intensity |-> 2500, color |-> "#ffffff",
                            position |-> <<5 * One, 10 * One, 7500>>,
                            castShadow |-> TRUE, shadow |-> NewShadow("directional")],
                           "directional")
    /\ lastEvent' = [type |-> "setupBaseLighting"]
    /\ UNCHANGED <<SetterOthers, lights, outline>>

UpdateAmbientLight ==
    /\ \E intensity \in {500}, color \in {"undefined", "", "#ff0000"} :
          /\ ambientLight' = updateAmbientLight(ambientLight, intensity, color)
          /\ lastEvent' = [type |-> "updateAmbientLight", intensity |-> intensity,
                            color |-> color]
    /\ UNCHANGED <<SetterOthers, lights, outline, directionalLight>>

UpdateDirectionalLight ==
    /\ \E intensity \in {0}, color \in {"undefined", "#ff0000"} :
          /\ directionalLight' = updateDirectionalLight(directionalLight, intensity, color)
          /\ lastEvent' = [type |-> "updateDirectionalLight", intensity |-> intensity,
                            color |-> color]
    /\ UNCHANGED <<SetterOthers, lights, outline, ambientLight>>

\* RenderManager.setOutlineColor
SetOutlineColor ==
    /\ \E color \in {255} :
          /\ outline' = [outline EXCEPT !.visibleEdgeColor = color]
          /\ lastEvent' = [type |-> "setOutlineColor", value |-> color]
    /\ UNCHANGED <<SetterOthers, lights, ambientLight, directionalLight>>

\* RenderManager.setOutlineStrength
SetOutlineStrength ==
    /\ \E strength \in {0, 2500} :
          /\ outline' = [outline EXCEPT !.edgeStrength = strength]
          /\ lastEvent' = [type |-> "setOutlineStrength", value |-> strength]
    /\ UNCHANGED <<SetterOthers, lights, ambientLight, directionalLight>>

\* RenderManager.setOutlinePulse
SetOutlinePulse ==
    /\ \E speed \in {0} :
          /\ outline' = [outline EXCEPT !.pulseSpeed = speed]
          /\ lastEvent' = [type |-> "setOutlinePulse", value |-> speed]
    /\ UNCHANGED <<SetterOthers, lights, ambientLight, directionalLight>>

\* a LightManager whose processGLBLights has run on the model, before
\* setupBaseLighting
SetterInit ==
    /\ InitCamera /\ InitFrames /\ InitViewer /\ InitPage /\ InitStandalone /\ InitPanels
    /\ chain = <<>>
    /\ LET processed == processGLBLights(ModelLights)
       IN  /\ lights = processed.lights
           /\ glbLights = processed.glbLights
           /\ glbPointLights = processed.glbPointLights
           /\ glbSpotLights = processed.glbSpotLights
           /\ glbDirectionalLights = processed.glbDirectionalLights

SetterSpec ==
    SetterInit /\ [][ \/ SetupBaseLighting
                       \/ UpdateAmbientLight
                       \/ UpdateDirectionalLight
                       \/ UpdatePointLight
                       \/ UpdateSpotLight
                       \/ SetOutlineColor
                       \/ SetOutlineStrength
                       \/ SetOutlinePulse ]_vars

\* the two records agree on every field outside fields
SameBut(old, new, fields) ==
    /\ DOMAIN new = DOMAIN old
    /\ \A f \in DOMAIN old \ fields : new[f] = old[f]

\* what a base light setter may change of its light: the intensity, and the
\* colour when one is given; nothing when the light does not exist
BaseLightSet(old, new) ==
    IF old = NullLight THEN new = NullLight
    ELSE /\ SameBut(old, new, {"intensity"} \cup
                               (IF ColorGiven(lastEvent'.color) THEN {"color"} ELSE {}))
         /\ new.intensity = lastEvent'.intensity
         /\ ColorGiven(lastEvent'.color) => new.color = lastEvent'.color

\* what an outline setter may change: its own parameter
OutlineSet(field) ==
    /\ SameBut(outline, outline', {field})
    /\ outline'[field] = lastEvent'.value
    /\ UNCHANGED <<lights, ambientLight, directionalLight>>

\* what a setter of a GLB light may change: of the light it is given, the
\* fields present in the settings (the angle arrives in degrees)
GlbLightSet ==
    LET settings == lastEvent'.settings
        l == lastEvent'.light
    IN  /\ DOMAIN lights' = DOMAIN lights
        /\ \A i \in DOMAIN lights : i # l => lights'[i] = lights[i]
        /\ SameBut(lights[l], lights'[l], DOMAIN settings)
        /\ \A f \in DOMAIN settings :
              lights'[l][f] = IF f = "angle" THEN DegToRad(settings[f]) ELSE settings[f]
        /\ UNCHANGED <<outline, ambientLight, directionalLight>>

\* C21: every parameter setter changes only the parameter it names:
\* updatePointLight and updateSpotLight change exactly the fields present in
\* the settings; updateAmbientLight and updateDirectionalLight change only
\* the intensity (and the colour when one is given) of their light and do
\* nothing when it does not exist; setOutlineColor, setOutlineStrength and
\* setOutlinePulse change only their own outline parameter.
C21_SettersChangeOnlyTheirs ==
    [][/\ lastEvent'.type \in {"updatePointLight", "updateSpotLight"} => GlbLightSet
       /\ lastEvent'.type = "updateAmbientLight" =>
             /\ BaseLightSet(ambientLight, ambientLight')
             /\ UNCHANGED <<lights, outline, directionalLight>>
       /\ lastEvent'.type = "updateDirectionalLight" =>
             /\ BaseLightSet(directionalLight, directionalLight')
             /\ UNCHANGED <<lights, outline, ambientLight>>
       /\ lastEvent'.type = "setOutlineColor" => OutlineSet("visibleEdgeColor")
       /\ lastEvent'.type = "setOutlineStrength" => OutlineSet("edgeStrength")
       /\ lastEvent'.type = "setOutlinePulse" => OutlineSet("pulseSpeed")]_vars

\* the ambient light was made red earlier, and the last call set its
\* intensity without a colour
C21_Witness ==
    /\ lastEvent.type = "updateAmbientLight"
    /\ lastEvent.color = "undefined"
    /\ ambientLight # NullLight
    /\ ambientLight.color = "#ff0000"
    /\ ambientLight.intensity = 500
    /\ outline.edgeStrength = 2500
    /\ \E i \in DOMAIN lights : lights[i].color = "#ff0000"

====
